---- MODULE Spec2Model ----
(***************************************************************************)
(* The bulk asset upload pipeline of `wrangler pages publish`              *)
(* (src/unnamed/part_001, function upload): dedup check, bucket planner,   *)
(* PQueue-driven uploads with retry and JWT refresh, upsert-hashes, and    *)
(* the returned manifest.                                                  *)
(*                                                                         *)
(* Sizes are counted in units; the limits imported from ./constants are    *)
(* scaled down so that every limit is hit by a small index.                *)
(***************************************************************************)
EXTENDS Integers, Sequences, FiniteSets, TLC

\* ------------------------------------------------------------------ limits
\* import { BULK_UPLOAD_CONCURRENCY, ... } from "./constants" (scaled)
BULK_UPLOAD_CONCURRENCY == 2
MAX_BUCKET_FILE_COUNT == 2
MAX_BUCKET_SIZE == 3
MAX_UPLOAD_ATTEMPTS == 2
\* 25 * 1024 * 1024 in walk, in units: no indexed file is larger
MAX_FILE_SIZE == 2
\* fileMap.size > 20000, scaled
MAX_FILE_COUNT == 3
\* (e as { code: number }).code === 8000013
JWT_EXPIRED_CODE == 8000013

\* ------------------------------------------------------------------ bounds
\* the largest index the walk hands over (one more than MAX_FILE_COUNT)
MaxIndexSize == 4
\* the number of files the planner is run on in SpecPlan
MaxPlanFiles == 5
MaxWalkEntries == 3
MaxPlaceFiles == 4
MaxContentLen == 1
MaxNameLen == 3
MaxLinkEntries == 2
MaxInputNameLen == 6
MaxInputContentLen == 3
MaxLiveIndexSize == 2
MaxEffects == 3
MaxRebuilds == 2

\* the contents an indexed file can have: the hash is a function of the content
\* (and extension), and so is the size
Blobs == {[hash |-> "h1", sizeInBytes |-> 2], [hash |-> "h2", sizeInBytes |-> 1]}
Names == <<"a", "b", "c", "d", "e", "f">>

\* ------------------------------------------------------------------ helpers
RECURSIVE SumSizes(_)
SumSizes(fs) ==
    IF fs = << >> THEN 0 ELSE Head(fs).sizeInBytes + SumSizes(Tail(fs))

\* Filter without the test of the missing hashes
Filter_KeepsAll(fs, missing) == fs

RECURSIVE Filter(_, _)
\* files.filter((file) => missingHashes.includes(file.hash))
Filter(fs, missing) ==
    IF fs = << >> THEN << >>
    ELSE IF Head(fs).hash \in missing
         THEN <<Head(fs)>> \o Filter(Tail(fs), missing)
         ELSE Filter(Tail(fs), missing)

RECURSIVE InsertDesc(_, _)
\* f goes after every element that is not smaller (the sort is stable)
InsertDesc(sorted, f) ==
    IF sorted = << >> THEN <<f>>
    ELSE IF Head(sorted).sizeInBytes >= f.sizeInBytes
         THEN <<Head(sorted)>> \o InsertDesc(Tail(sorted), f)
         ELSE <<f>> \o sorted

\* SortDesc leaving the files in the order of the index
SortDesc_Unsorted(fs) == fs

RECURSIVE SortDesc(_)
\* .sort((a, b) => b.sizeInBytes - a.sizeInBytes)
SortDesc(fs) ==
    IF fs = << >> THEN << >>
    ELSE InsertDesc(SortDesc(SubSeq(fs, 1, Len(fs) - 1)), fs[Len(fs)])

\* new Array(BULK_UPLOAD_CONCURRENCY).fill(null).map(() => ({files: [], remainingSize}))
InitialBuckets ==
    [i \in 1..BULK_UPLOAD_CONCURRENCY |->
        [files |-> << >>, remainingSize |-> MAX_BUCKET_SIZE]]

\* Fits without the file count test
Fits_IgnoresCount(bucket, file) == bucket.remainingSize >= file.sizeInBytes

\* bucket.remainingSize >= file.sizeInBytes && bucket.files.length < MAX_BUCKET_FILE_COUNT
Fits(bucket, file) ==
    /\ bucket.remainingSize >= file.sizeInBytes
    /\ Len(bucket.files) < MAX_BUCKET_FILE_COUNT

\* ScanIndex without bucketOffset: the scan starts at the first bucket
ScanIndex_FromFirst(bs, i, offset) == i + 1

\* buckets[(i + bucketOffset) % buckets.length], as a 1-based index
ScanIndex(bs, i, offset) == ((i + offset) % Len(bs)) + 1

\* PlaceFile without the `if (!inserted)` branch: a file that fits nowhere is lost
PlaceFile_DropsOverflow(bs, file, offset) ==
    LET hits == {i \in 0..(Len(bs) - 1) : Fits(bs[ScanIndex(bs, i, offset)], file)}
    IN  IF hits # {}
        THEN LET i == CHOOSE j \in hits : \A k \in hits : j <= k
                 b == ScanIndex(bs, i, offset)
             IN  [bs EXCEPT ![b] =
                     [files |-> Append(bs[b].files, file),
                      remainingSize |-> bs[b].remainingSize - file.sizeInBytes]]
        ELSE bs

\* one iteration of `for (const file of sortedFiles)`
PlaceFile(bs, file, offset) ==
    LET hits == {i \in 0..(Len(bs) - 1) : Fits(bs[ScanIndex(bs, i, offset)], file)}
    IN  IF hits # {}
        THEN LET i == CHOOSE j \in hits : \A k \in hits : j <= k
                 b == ScanIndex(bs, i, offset)
             IN  [bs EXCEPT ![b] =
                     [files |-> Append(bs[b].files, file),
                      remainingSize |-> bs[b].remainingSize - file.sizeInBytes]]
        ELSE Append(bs, [files |-> <<file>>,
                         remainingSize |-> MAX_BUCKET_SIZE - file.sizeInBytes])

RECURSIVE PlanFrom(_, _, _)
\* the whole planner loop, from bucketOffset = offset
PlanFrom(bs, fs, offset) ==
    IF fs = << >> THEN bs
    ELSE PlanFrom(PlaceFile(bs, Head(fs), offset), Tail(fs), offset + 1)

Plan(fs) == PlanFrom(InitialBuckets, fs, 0)


\* ------------------------------------------------------------------ state
VARIABLES
    effects,             \* useEsbuild: one record per run of the effect
    bundle,              \* useEsbuild: the state `bundle`, << >> while undefined
    mounted,             \* useEsbuild: the component is mounted
    exitCalls,           \* useEsbuild: calls of exit(err)
    rebuilds,            \* useEsbuild: calls of onRebuild
    hashFiles,           \* files read by walk: [dir, file, content, size]
    hashed,              \* the entry walk made for each of them, << >> before
    tree,                \* the entries under `directory`: [name, parent, kind, sizeInBytes, hash],
                         \* and [..., link] for a symbolic link, kind being that of its target
    walkState,           \* where the walk callback of each entry is
    walkMap,             \* the Map that walk fills
    unhandledRejections, \* what the runtime does with a rejection nobody handles
    alive,               \* the process is running
    pc,                  \* where upload() is suspended
    fileMap,             \* the index, in insertion order: [name, sizeInBytes, hash]
    jwt,                 \* let jwt: the shared upload token (0: none yet)
    jwtRequests,         \* fetchJwt() calls issued so far; the k-th returns token k
    checkMissingCalls,   \* payloads of the check-missing calls issued
    missingHashes,
    sortedFiles,
    buckets,
    bucketOffset,
    counter,
    tasks,               \* one doUpload closure per bucket
    fatalErrors,         \* codes of the FatalErrors built by the rejection handler
    successLogged,       \* the "Success! Uploaded ..." report, << >> before it
    upsertCalls,         \* [jwt, hashes] of the upsert-hashes calls issued
    upsertCaught,        \* the error caught by doUpsertHashes
    upsertLog,           \* what doUpsertHashes did so far: calls, outcomes, timers
    warned,              \* logger.warn("Failed to update file hashes...")
    thrown,              \* the error upload() rejected with, << >> if none
    manifest             \* the value upload() returned, << >> before it

vars == <<effects, bundle, mounted, exitCalls, rebuilds, hashFiles, hashed, tree, walkState, walkMap, unhandledRejections, alive, pc, fileMap, jwt, jwtRequests,
          checkMissingCalls, missingHashes, sortedFiles, buckets, bucketOffset,
          counter, tasks, fatalErrors, successLogged, upsertCalls, upsertCaught,
          upsertLog, warned, thrown, manifest>>

devVars == <<effects, bundle, mounted, exitCalls, rebuilds>>
hashVars == <<hashFiles, hashed>>
walkVars == <<tree, walkState, walkMap>>
planVars == <<sortedFiles, buckets, bucketOffset>>

\* the errors a network call can reject with: the expiry code, another remote
\* code, or an error without a code (a network error, a malformed response)
ExpiredError == [hasCode |-> TRUE, code |-> JWT_EXPIRED_CODE]
Errors == {ExpiredError,
           [hasCode |-> TRUE, code |-> 10000],
           [hasCode |-> FALSE, code |-> 0]}

\* IsExpired comparing with another code
IsExpired_WrongCode(e) == e.hasCode /\ e.code = 10000

\* (e as { code: number }).code === 8000013
IsExpired(e) == e.hasCode /\ e.code = JWT_EXPIRED_CODE

\* error.code || 1
FatalErrorCode(e) == IF e.hasCode /\ e.code # 0 THEN e.code ELSE 1

\* files.map(({ hash }) => hash)
\* HashesOf with the hash of the first file only
HashesOf_First(fs) == IF fs = << >> THEN << >> ELSE <<Head(fs).hash>>

RECURSIVE HashesOf(_)
HashesOf(fs) ==
    IF fs = << >> THEN << >> ELSE <<Head(fs).hash>> \o HashesOf(Tail(fs))

HashSet(fs) == {fs[i].hash : i \in 1..Len(fs)}

\* Manifest keyed by the bare file name
Manifest_NoSlash(fm) ==
    [k \in {fm[i].name : i \in 1..Len(fm)} |->
        LET i == CHOOSE j \in 1..Len(fm) : fm[j].name = k IN fm[i].hash]

\* Object.fromEntries([...fileMap.entries()].map(([fileName, file]) => [`/${fileName}`, file.hash]))
Manifest(fm) ==
    [k \in {"/" \o fm[i].name : i \in 1..Len(fm)} |->
        LET i == CHOOSE j \in 1..Len(fm) :
                    /\ "/" \o fm[j].name = k
                    /\ \A l \in 1..Len(fm) : "/" \o fm[l].name = k => l <= j
        IN  fm[i].hash]

\* the indexes of n files the walk can produce (the names are added by FileMapOf)
Indexes(n) == [1..n -> Blobs]

FileMapOf(ix) ==
    [i \in 1..Len(ix) |->
        [name |-> Names[i], sizeInBytes |-> ix[i].sizeInBytes, hash |-> ix[i].hash]]

\* ------------------------------------------------------------------ PQueue
NewTask ==
    [state |-> "queued",    \* queued, uploading, sleeping, refreshing, done, failed
     attempts |-> 0,        \* let attempts
     expired |-> FALSE,     \* inside catch (e): e.code === 8000013
     callJwt |-> 0,         \* the token of the upload call in flight or last failed
     reqId |-> 0,           \* the fetchJwt() request this task awaits
     calls |-> 0,           \* upload calls issued
     delays |-> << >>,      \* the setTimeout delays so far, in seconds
     outcomes |-> << >>,    \* how each upload call ended: ok, expired, other
     refreshes |-> 0,       \* fetchJwt() calls of this task that resolved
     counted |-> 0]         \* times the bucket was added to the counter

Pending(ts) ==
    {i \in 1..Len(ts) : ts[i].state \in {"uploading", "sleeping", "refreshing"}}

Queued(ts) == {i \in 1..Len(ts) : ts[i].state = "queued"}

\* doUpload(): fetchResult("/pages/assets/upload", {Authorization: `Bearer ${jwt}`})
StartCall(t, j) ==
    [t EXCEPT !.state = "uploading", !.callJwt = j, !.calls = @ + 1,
              !.expired = FALSE]

\* TryToStartAnother with the limit off by one (<= for <)
TryToStartAnother_OffByOne(ts, j) ==
    IF Queued(ts) # {} /\ Cardinality(Pending(ts)) <= BULK_UPLOAD_CONCURRENCY
    THEN LET i == CHOOSE q \in Queued(ts) : \A r \in Queued(ts) : q <= r
         IN  [ts EXCEPT ![i] = StartCall(@, j)]
    ELSE ts

\* PQueue: the oldest queued task starts when fewer than `concurrency` are pending
TryToStartAnother(ts, j) ==
    IF Queued(ts) # {} /\ Cardinality(Pending(ts)) < BULK_UPLOAD_CONCURRENCY
    THEN LET i == CHOOSE q \in Queued(ts) : \A r \in Queued(ts) : q <= r
         IN  [ts EXCEPT ![i] = StartCall(@, j)]
    ELSE ts

RECURSIVE StartAll(_, _)
\* the queue.add() loop: each add starts a task while the limit allows
StartAll(ts, j) ==
    IF TryToStartAnother(ts, j) = ts THEN ts ELSE StartAll(TryToStartAnother(ts, j), j)

\* queue.onEmpty() for queue.onIdle(): nothing queued
IsIdle_OnEmpty(ts) == Queued(ts) = {}

\* IsIdle that waits for every task to have succeeded
IsIdle_AllDone(ts) == \A i \in 1..Len(ts) : ts[i].state \in {"done", "skipped"}

\* queue.onIdle() resolves: nothing queued, nothing pending
IsIdle(ts) == Queued(ts) = {} /\ Pending(ts) = {}

\* TasksFor without the skip of empty buckets
TasksFor_NoSkip(bs) == [i \in 1..Len(bs) |-> NewTask]

\* if (bucket.files.length === 0) continue; ... queue.add(...)
TasksFor(bs) ==
    [i \in 1..Len(bs) |->
        IF Len(bs[i].files) = 0 THEN [NewTask EXCEPT !.state = "skipped"] ELSE NewTask]

\* ------------------------------------------------------------------ upload()
Init ==
    /\ unhandledRejections \in {"throw", "warn"}
    /\ alive = TRUE
    /\ effects = << >> /\ bundle = << >> /\ mounted = FALSE /\ exitCalls = 0 /\ rebuilds = 0
    /\ hashFiles = << >> /\ hashed = << >>
    /\ tree = << >> /\ walkState = << >> /\ walkMap = << >>
    /\ pc = "start"
    /\ \E n \in 0..MaxIndexSize : \E ix \in Indexes(n) : fileMap = FileMapOf(ix)
    /\ jwt = 0
    /\ jwtRequests = 0
    /\ checkMissingCalls = << >>
    /\ missingHashes = {}
    /\ sortedFiles = << >>
    /\ buckets = << >>
    /\ bucketOffset = 0
    /\ counter = 0
    /\ tasks = << >>
    /\ fatalErrors = << >>
    /\ successLogged = << >>
    /\ upsertCalls = << >>
    /\ upsertCaught = [hasCode |-> FALSE, code |-> 0]
    /\ upsertLog = << >>
    /\ warned = FALSE
    /\ thrown = << >>
    /\ manifest = << >>

schedVars == <<counter, tasks, fatalErrors>>
endVars == <<successLogged, upsertCalls, upsertCaught, upsertLog, warned, thrown,
             manifest>>

\* CheckFileCount with >= for >
CheckFileCount_AtLeast ==
    /\ alive /\ pc = "start"
    /\ IF Len(fileMap) >= MAX_FILE_COUNT
       THEN /\ pc' = "threw"
            /\ thrown' = <<[fatal |-> TRUE, hasCode |-> TRUE, code |-> 1]>>
            /\ UNCHANGED jwtRequests
       ELSE /\ pc' = "fetchJwt"
            /\ jwtRequests' = jwtRequests + 1
            /\ UNCHANGED thrown
    /\ UNCHANGED <<devVars, hashVars, walkVars, unhandledRejections, alive, fileMap, jwt, checkMissingCalls,
                   missingHashes, planVars, schedVars, successLogged, upsertCalls,
                   upsertCaught, upsertLog, warned, manifest>>

\* if (fileMap.size > 20000) throw new FatalError(..., 1); let jwt = await fetchJwt()
CheckFileCount ==
    /\ alive /\ pc = "start"
    /\ IF Len(fileMap) > MAX_FILE_COUNT
       THEN /\ pc' = "threw"
            /\ thrown' = <<[fatal |-> TRUE, hasCode |-> TRUE, code |-> 1]>>
            /\ UNCHANGED jwtRequests
       ELSE /\ pc' = "fetchJwt"
            /\ jwtRequests' = jwtRequests + 1
            /\ UNCHANGED thrown
    /\ UNCHANGED <<devVars, hashVars, walkVars, unhandledRejections, alive, fileMap, jwt, checkMissingCalls,
                   missingHashes, planVars, schedVars, successLogged, upsertCalls,
                   upsertCaught, upsertLog, warned, manifest>>

\* the first fetchJwt() resolves; check-missing is called with every hash
FetchJwtOk ==
    /\ alive /\ pc = "fetchJwt"
    /\ jwt' = jwtRequests
    /\ checkMissingCalls' =
           Append(checkMissingCalls, [jwt |-> jwt', hashes |-> HashesOf(fileMap)])
    /\ pc' = "checkMissing"
    /\ UNCHANGED <<devVars, hashVars, walkVars, unhandledRejections, alive, fileMap, jwtRequests, missingHashes,
                   planVars, schedVars, endVars>>

\* the first fetchJwt() rejects: upload() rejects with that error
FetchJwtFail ==
    /\ alive /\ pc = "fetchJwt"
    /\ \E e \in Errors :
           thrown' = <<[fatal |-> FALSE, hasCode |-> e.hasCode, code |-> e.code]>>
    /\ pc' = "threw"
    /\ UNCHANGED <<devVars, hashVars, walkVars, unhandledRejections, alive, fileMap, jwt, jwtRequests,
                   checkMissingCalls, missingHashes, planVars, schedVars,
                   successLogged, upsertCalls, upsertCaught, upsertLog, warned,
                   manifest>>

\* what doUpsertHashes does: "call" of upsert-hashes, "resolved" or "rejected"
\* outcome of a call, "fetchJwt" and its "refreshFailed", setTimeout of ms
Event(ev) == [ev |-> ev, ms |-> 0]

Timer(ms) == [ev |-> "timer", ms |-> ms]

\* AfterIdle with the hashes of the uploaded files as the payload
AfterIdle_UploadedOnly(sf, mh, j) ==
    /\ successLogged' =
           <<[uploaded |-> Len(sf), skipped |-> Len(fileMap) - Cardinality(mh)]>>
    /\ upsertCalls' = Append(upsertCalls, [jwt |-> j, hashes |-> HashesOf(sf)])
    /\ upsertLog' = Append(upsertLog, Event("call"))
    /\ pc' = "upsert1"

\* unmount(); logger.log("Success! ..."); doUpsertHashes() issues its first call
AfterIdle(sf, mh, j) ==
    /\ successLogged' =
           <<[uploaded |-> Len(sf), skipped |-> Len(fileMap) - Cardinality(mh)]>>
    /\ upsertCalls' = Append(upsertCalls, [jwt |-> j, hashes |-> HashesOf(fileMap)])
    /\ upsertLog' = Append(upsertLog, Event("call"))
    /\ pc' = "upsert1"

\* PQueue's _next() after a task settled, and the resumption of upload() on "idle"
Settled(ts, j) ==
    /\ tasks' = TryToStartAnother(ts, j)
    /\ IF IsIdle(tasks')
       THEN AfterIdle(sortedFiles, missingHashes, j)
       ELSE UNCHANGED <<pc, successLogged, upsertCalls, upsertLog>>

\* check-missing resolves: filter, sort, plan, render, queue.add for each bucket,
\* await queue.onIdle()
CheckMissingOk ==
    /\ alive /\ pc = "checkMissing"
    /\ \E mh \in SUBSET HashSet(fileMap) :
        /\ missingHashes' = mh
        /\ sortedFiles' = SortDesc(Filter(fileMap, mh))
        /\ buckets' = Plan(sortedFiles')
        /\ bucketOffset' = Len(sortedFiles')
        /\ counter' = Len(fileMap) - Len(sortedFiles')
        /\ tasks' = StartAll(TasksFor(buckets'), jwt)
        /\ IF IsIdle(tasks')
           THEN AfterIdle(sortedFiles', mh, jwt)
           ELSE /\ pc' = "onIdle"
                /\ UNCHANGED <<successLogged, upsertCalls, upsertLog>>
    /\ UNCHANGED <<devVars, hashVars, walkVars, unhandledRejections, alive, fileMap, jwt, jwtRequests,
                   checkMissingCalls, fatalErrors, upsertCaught, warned, thrown,
                   manifest>>

\* CheckMissingFail with one more check-missing call for the throw
CheckMissingFail_Retried ==
    /\ alive /\ pc = "checkMissing"
    /\ IF Len(checkMissingCalls) < 2
       THEN /\ checkMissingCalls' =
                   Append(checkMissingCalls, [jwt |-> jwt, hashes |-> HashesOf(fileMap)])
            /\ UNCHANGED <<pc, thrown>>
       ELSE /\ thrown' = <<[fatal |-> FALSE, hasCode |-> FALSE, code |-> 0]>>
            /\ pc' = "threw"
            /\ UNCHANGED checkMissingCalls
    /\ UNCHANGED <<devVars, hashVars, walkVars, unhandledRejections, alive, fileMap, jwt, jwtRequests,
                   missingHashes, planVars, schedVars, successLogged, upsertCalls,
                   upsertCaught, upsertLog, warned, manifest>>

\* check-missing rejects: upload() rejects with that error
CheckMissingFail ==
    /\ alive /\ pc = "checkMissing"
    /\ \E e \in Errors :
           thrown' = <<[fatal |-> FALSE, hasCode |-> e.hasCode, code |-> e.code]>>
    /\ pc' = "threw"
    /\ UNCHANGED <<devVars, hashVars, walkVars, unhandledRejections, alive, fileMap, jwt, jwtRequests,
                   checkMissingCalls, missingHashes, planVars, schedVars,
                   successLogged, upsertCalls, upsertCaught, upsertLog, warned,
                   manifest>>

\* ------------------------------------------------------------------ doUpload
\* UploadOk with the counter computed from its initial value (a lost update)
UploadOk_LostUpdate(i) ==
    /\ alive /\ pc = "onIdle"
    /\ i \in 1..Len(tasks) /\ tasks[i].state = "uploading"
    /\ counter' = (Len(fileMap) - Len(sortedFiles)) + Len(buckets[i].files)
    /\ Settled([tasks EXCEPT ![i].state = "done", ![i].counted = @ + 1,
                              ![i].outcomes = Append(@, "ok"),
                              ![i].callJwt = 0], jwt)
    /\ UNCHANGED <<devVars, hashVars, walkVars, unhandledRejections, alive, fileMap, jwt, jwtRequests,
                   checkMissingCalls, missingHashes, planVars, fatalErrors,
                   upsertCaught, warned, thrown, manifest>>

\* UploadOk with the bucket put back in the queue once
UploadOk_Requeued(i) ==
    /\ alive /\ pc = "onIdle"
    /\ i \in 1..Len(tasks) /\ tasks[i].state = "uploading"
    /\ counter' = counter + Len(buckets[i].files)
    /\ Settled([tasks EXCEPT ![i].state = IF tasks[i].counted = 0 THEN "queued" ELSE "done",
                              ![i].counted = @ + 1,
                              ![i].outcomes = Append(@, "ok"),
                              ![i].callJwt = 0], jwt)
    /\ UNCHANGED <<devVars, hashVars, walkVars, unhandledRejections, alive, fileMap, jwt, jwtRequests,
                   checkMissingCalls, missingHashes, planVars, fatalErrors,
                   upsertCaught, warned, thrown, manifest>>

\* the upload call of bucket i resolves: counter += bucket.files.length; rerender
UploadOk(i) ==
    /\ alive /\ pc = "onIdle"
    /\ i \in 1..Len(tasks) /\ tasks[i].state = "uploading"
    /\ counter' = counter + Len(buckets[i].files)
    /\ Settled([tasks EXCEPT ![i].state = "done", ![i].counted = @ + 1,
                              ![i].outcomes = Append(@, "ok"),
                              ![i].callJwt = 0], jwt)
    /\ UNCHANGED <<devVars, hashVars, walkVars, unhandledRejections, alive, fileMap, jwt, jwtRequests,
                   checkMissingCalls, missingHashes, planVars, fatalErrors,
                   upsertCaught, warned, thrown, manifest>>

\* if (attempts < MAX_UPLOAD_ATTEMPTS)
MayRetry(t) == t.attempts < MAX_UPLOAD_ATTEMPTS

\* ++attempts for attempts++
Backoff_PreIncrement(t) == t.attempts + 1

\* setTimeout(resolve, attempts++ * 1000), in seconds
Backoff(t) == t.attempts

Outcome(e) == IF e = ExpiredError THEN "expired" ELSE "other"

\* the rejection handler of queue.add: Promise.reject(new FatalError(..., error.code || 1)),
\* a rejection nobody handles; then PQueue's _next()
Rejected(ts, i, e) ==
    /\ fatalErrors' = Append(fatalErrors, FatalErrorCode(e))
    /\ Settled([ts EXCEPT ![i].state = "failed", ![i].callJwt = 0, ![i].reqId = 0],
               jwt)
    /\ alive' = (unhandledRejections = "warn")

\* the upload call of bucket i rejects with e
UploadFail(i) ==
    /\ alive /\ pc = "onIdle"
    /\ i \in 1..Len(tasks) /\ tasks[i].state = "uploading"
    /\ \E e \in Errors :
        IF MayRetry(tasks[i])
        THEN /\ tasks' = [tasks EXCEPT ![i].state = "sleeping",
                                       ![i].delays = Append(@, Backoff(tasks[i])),
                                       ![i].attempts = @ + 1,
                                       ![i].outcomes = Append(@, Outcome(e)),
                                       ![i].expired = IsExpired(e)]
             /\ UNCHANGED <<alive, pc, fatalErrors, successLogged, upsertCalls,
                            upsertLog>>
        ELSE Rejected([tasks EXCEPT ![i].outcomes = Append(@, Outcome(e))], i, e)
    /\ UNCHANGED <<devVars, hashVars, walkVars, unhandledRejections, fileMap, jwt, jwtRequests, checkMissingCalls,
                   missingHashes, planVars, counter, upsertCaught, warned, thrown,
                   manifest>>

\* the retry that follows the backoff of a failure that is not an expiry
RetryNow(t, j) == StartCall(t, j)

\* BackoffElapsed without the test of the error code
BackoffElapsed_AlwaysRefresh(i) ==
    /\ alive /\ pc = "onIdle"
    /\ i \in 1..Len(tasks) /\ tasks[i].state = "sleeping"
    /\ jwtRequests' = jwtRequests + 1
    /\ tasks' = [tasks EXCEPT ![i].state = "refreshing", ![i].reqId = jwtRequests']
    /\ UNCHANGED <<devVars, hashVars, walkVars, unhandledRejections, alive, pc, fileMap, jwt, checkMissingCalls,
                   missingHashes, planVars, counter, fatalErrors, endVars>>

\* the backoff timer of bucket i fires: fetchJwt() after an expiry, else doUpload()
BackoffElapsed(i) ==
    /\ alive /\ pc = "onIdle"
    /\ i \in 1..Len(tasks) /\ tasks[i].state = "sleeping"
    /\ IF tasks[i].expired
       THEN /\ jwtRequests' = jwtRequests + 1
            /\ tasks' = [tasks EXCEPT ![i].state = "refreshing",
                                      ![i].reqId = jwtRequests']
       ELSE /\ tasks' = [tasks EXCEPT ![i] = RetryNow(@, jwt)]
            /\ UNCHANGED jwtRequests
    /\ UNCHANGED <<devVars, hashVars, walkVars, unhandledRejections, alive, pc, fileMap, jwt, checkMissingCalls,
                   missingHashes, planVars, counter, fatalErrors, endVars>>

\* await fetchJwt() without the assignment to jwt
Refreshed_NotAssigned(old, r) == old

\* jwt = await fetchJwt(): the token the shared variable gets from request r
Refreshed(old, r) == r

\* RefreshOk keeping the token requested last
RefreshOk_KeepsNewest(i) ==
    /\ alive /\ pc = "onIdle"
    /\ i \in 1..Len(tasks) /\ tasks[i].state = "refreshing"
    /\ jwt' = IF tasks[i].reqId > jwt THEN tasks[i].reqId ELSE jwt
    /\ tasks' = [tasks EXCEPT
                     ![i] = StartCall([@ EXCEPT !.reqId = 0, !.refreshes = @ + 1], jwt')]
    /\ UNCHANGED <<devVars, hashVars, walkVars, unhandledRejections, alive, pc, fileMap, jwtRequests,
                   checkMissingCalls, missingHashes, planVars, counter, fatalErrors,
                   endVars>>

\* the fetchJwt() of bucket i resolves: jwt is replaced, then doUpload()
RefreshOk(i) ==
    /\ alive /\ pc = "onIdle"
    /\ i \in 1..Len(tasks) /\ tasks[i].state = "refreshing"
    /\ jwt' = Refreshed(jwt, tasks[i].reqId)
    /\ tasks' = [tasks EXCEPT
                     ![i] = StartCall([@ EXCEPT !.reqId = 0, !.refreshes = @ + 1], jwt')]
    /\ UNCHANGED <<devVars, hashVars, walkVars, unhandledRejections, alive, pc, fileMap, jwtRequests,
                   checkMissingCalls, missingHashes, planVars, counter, fatalErrors,
                   endVars>>

\* the fetchJwt() of bucket i rejects: doUpload rejects with that error
RefreshFail(i) ==
    /\ alive /\ pc = "onIdle"
    /\ i \in 1..Len(tasks) /\ tasks[i].state = "refreshing"
    /\ \E e \in Errors : Rejected(tasks, i, e)
    /\ UNCHANGED <<devVars, hashVars, walkVars, unhandledRejections, fileMap, jwt, jwtRequests, checkMissingCalls,
                   missingHashes, planVars, counter, upsertCaught, warned, thrown,
                   manifest>>

\* ------------------------------------------------------------------ doUpsertHashes
\* Return with a manifest of the uploaded files only
Return_UploadedOnly ==
    /\ pc' = "returned"
    /\ manifest' = <<Manifest(sortedFiles)>>

\* return Object.fromEntries(...)
Return ==
    /\ pc' = "returned"
    /\ manifest' = <<Manifest(fileMap)>>

\* an upsert-hashes call resolves
UpsertOk ==
    /\ alive /\ pc \in {"upsert1", "upsert2"}
    /\ upsertLog' = Append(upsertLog, Event("resolved"))
    /\ Return
    /\ UNCHANGED <<devVars, hashVars, walkVars, unhandledRejections, alive, fileMap, jwt, jwtRequests,
                   checkMissingCalls, missingHashes, planVars, schedVars,
                   successLogged, upsertCalls, upsertCaught, warned, thrown>>

\* UpsertFail without the try/catch of upload() around doUpsertHashes()
UpsertFail_Propagates ==
    /\ alive /\ pc \in {"upsert1", "upsert2"}
    /\ \E e \in Errors :
        IF pc = "upsert1"
        THEN /\ pc' = "upsertSleep"
             /\ upsertCaught' = e
             /\ upsertLog' = upsertLog \o <<Event("rejected"), Timer(1000)>>
             /\ UNCHANGED thrown
        ELSE /\ pc' = "threw"
             /\ thrown' = <<[fatal |-> FALSE, hasCode |-> e.hasCode, code |-> e.code]>>
             /\ upsertLog' = Append(upsertLog, Event("rejected"))
             /\ UNCHANGED upsertCaught
    /\ UNCHANGED <<devVars, hashVars, walkVars, unhandledRejections, alive, fileMap, jwt, jwtRequests,
                   checkMissingCalls, missingHashes, planVars, schedVars,
                   successLogged, upsertCalls, warned, manifest>>

\* an upsert-hashes call rejects: the first is caught by doUpsertHashes (1 s
\* timer), the second by upload() (logger.warn, then the manifest is returned)
UpsertFail ==
    /\ alive /\ pc \in {"upsert1", "upsert2"}
    /\ \E e \in Errors :
        IF pc = "upsert1"
        THEN /\ pc' = "upsertSleep"
             /\ upsertCaught' = e
             /\ upsertLog' = upsertLog \o <<Event("rejected"), Timer(1000)>>
             /\ UNCHANGED <<warned, manifest>>
        ELSE /\ warned' = TRUE
             /\ upsertLog' = Append(upsertLog, Event("rejected"))
             /\ Return
             /\ UNCHANGED upsertCaught
    /\ UNCHANGED <<devVars, hashVars, walkVars, unhandledRejections, alive, fileMap, jwt, jwtRequests,
                   checkMissingCalls, missingHashes, planVars, schedVars,
                   successLogged, upsertCalls, thrown>>

\* UpsertBackoffElapsed without the test of the error code
UpsertBackoffElapsed_AlwaysRefresh ==
    /\ alive /\ pc = "upsertSleep"
    /\ jwtRequests' = jwtRequests + 1
    /\ upsertLog' = Append(upsertLog, Event("fetchJwt"))
    /\ pc' = "upsertRefresh"
    /\ UNCHANGED <<devVars, hashVars, walkVars, unhandledRejections, alive, fileMap, jwt, checkMissingCalls,
                   missingHashes, planVars, schedVars, successLogged, upsertCalls,
                   upsertCaught, warned, thrown, manifest>>

\* the 1 s timer of doUpsertHashes fires: fetchJwt() after an expiry, else the
\* second upsert-hashes call
UpsertBackoffElapsed ==
    /\ alive /\ pc = "upsertSleep"
    /\ IF IsExpired(upsertCaught)
       THEN /\ jwtRequests' = jwtRequests + 1
            /\ upsertLog' = Append(upsertLog, Event("fetchJwt"))
            /\ pc' = "upsertRefresh"
            /\ UNCHANGED upsertCalls
       ELSE /\ upsertCalls' =
                   Append(upsertCalls, [jwt |-> jwt, hashes |-> HashesOf(fileMap)])
            /\ upsertLog' = Append(upsertLog, Event("call"))
            /\ pc' = "upsert2"
            /\ UNCHANGED jwtRequests
    /\ UNCHANGED <<devVars, hashVars, walkVars, unhandledRejections, alive, fileMap, jwt, checkMissingCalls,
                   missingHashes, planVars, schedVars, successLogged, upsertCaught,
                   warned, thrown, manifest>>

\* the fetchJwt() of doUpsertHashes resolves: the second upsert-hashes call
UpsertRefreshOk ==
    /\ alive /\ pc = "upsertRefresh"
    /\ jwt' = Refreshed(jwt, jwtRequests)
    /\ upsertCalls' = Append(upsertCalls, [jwt |-> jwt', hashes |-> HashesOf(fileMap)])
    /\ upsertLog' = Append(upsertLog, Event("call"))
    /\ pc' = "upsert2"
    /\ UNCHANGED <<devVars, hashVars, walkVars, unhandledRejections, alive, fileMap, jwtRequests,
                   checkMissingCalls, missingHashes, planVars, schedVars,
                   successLogged, upsertCaught, warned, thrown, manifest>>

\* the fetchJwt() of doUpsertHashes rejects: caught by upload(), logger.warn
UpsertRefreshFail ==
    /\ alive /\ pc = "upsertRefresh"
    /\ warned' = TRUE
    /\ upsertLog' = Append(upsertLog, Event("refreshFailed"))
    /\ Return
    /\ UNCHANGED <<devVars, hashVars, walkVars, unhandledRejections, alive, fileMap, jwt, jwtRequests,
                   checkMissingCalls, missingHashes, planVars, schedVars,
                   successLogged, upsertCalls, upsertCaught, thrown>>

Next ==
    \/ CheckFileCount
    \/ FetchJwtOk
    \/ FetchJwtFail
    \/ CheckMissingOk
    \/ CheckMissingFail
    \/ \E i \in 1..(BULK_UPLOAD_CONCURRENCY + MAX_FILE_COUNT) : UploadOk(i)
    \/ \E i \in 1..(BULK_UPLOAD_CONCURRENCY + MAX_FILE_COUNT) : UploadFail(i)
    \/ \E i \in 1..(BULK_UPLOAD_CONCURRENCY + MAX_FILE_COUNT) : BackoffElapsed(i)
    \/ \E i \in 1..(BULK_UPLOAD_CONCURRENCY + MAX_FILE_COUNT) : RefreshOk(i)
    \/ \E i \in 1..(BULK_UPLOAD_CONCURRENCY + MAX_FILE_COUNT) : RefreshFail(i)
    \/ UpsertOk
    \/ UpsertFail
    \/ UpsertBackoffElapsed
    \/ UpsertRefreshOk
    \/ UpsertRefreshFail

Spec == Init /\ [][Next]_vars

\* the indexes of the runs followed to their end: files of the largest size, so
\* that each is alone in its bucket and one more than the queue runs at once
\* has to wait
LiveIndexes(n) == [1..n -> {[hash |-> "h1", sizeInBytes |-> MAX_FILE_SIZE]}]

InitLive ==
    /\ unhandledRejections \in {"throw", "warn"}
    /\ alive = TRUE
    /\ effects = << >> /\ bundle = << >> /\ mounted = FALSE /\ exitCalls = 0 /\ rebuilds = 0
    /\ hashFiles = << >> /\ hashed = << >>
    /\ tree = << >> /\ walkState = << >> /\ walkMap = << >>
    /\ pc = "start"
    /\ \E n \in 0..MaxLiveIndexSize : \E ix \in LiveIndexes(n) : fileMap = FileMapOf(ix)
    /\ jwt = 0
    /\ jwtRequests = 0
    /\ checkMissingCalls = << >>
    /\ missingHashes = {}
    /\ sortedFiles = << >>
    /\ buckets = << >>
    /\ bucketOffset = 0
    /\ counter = 0
    /\ tasks = << >>
    /\ fatalErrors = << >>
    /\ successLogged = << >>
    /\ upsertCalls = << >>
    /\ upsertCaught = [hasCode |-> FALSE, code |-> 0]
    /\ upsertLog = << >>
    /\ warned = FALSE
    /\ thrown = << >>
    /\ manifest = << >>

\* every network call is answered and every timer fires: a step that can be
\* taken is eventually taken
SpecLive == InitLive /\ [][Next]_vars /\ WF_vars(Next)

\* ------------------------------------------------------------------ the planner alone
\* the planner loop run file by file on every small index and dedup answer
PlanFile == [sizeInBytes : 0..MAX_FILE_SIZE, hash : {"h1", "h2"}]

PlanIndexes(n) == [1..n -> PlanFile]

InitPlan ==
    /\ unhandledRejections = "throw"
    /\ alive = TRUE
    /\ effects = << >> /\ bundle = << >> /\ mounted = FALSE /\ exitCalls = 0 /\ rebuilds = 0
    /\ hashFiles = << >> /\ hashed = << >>
    /\ tree = << >> /\ walkState = << >> /\ walkMap = << >>
    /\ pc = "plan"
    /\ \E n \in 0..MaxPlanFiles : \E ix \in PlanIndexes(n) : fileMap = FileMapOf(ix)
    /\ jwt = 1
    /\ jwtRequests = 1
    /\ checkMissingCalls = <<[jwt |-> jwt, hashes |-> HashesOf(fileMap)]>>
    /\ missingHashes \in SUBSET HashSet(fileMap)
    /\ sortedFiles = SortDesc(Filter(fileMap, missingHashes))
    /\ buckets = InitialBuckets
    /\ bucketOffset = 0
    /\ counter = 0
    /\ tasks = << >>
    /\ fatalErrors = << >>
    /\ successLogged = << >>
    /\ upsertCalls = << >>
    /\ upsertCaught = [hasCode |-> FALSE, code |-> 0]
    /\ upsertLog = << >>
    /\ warned = FALSE
    /\ thrown = << >>
    /\ manifest = << >>

\* one iteration of the for loop: place the file, bucketOffset++
PlanStep ==
    /\ pc = "plan"
    /\ bucketOffset < Len(sortedFiles)
    /\ buckets' = PlaceFile(buckets, sortedFiles[bucketOffset + 1], bucketOffset)
    /\ bucketOffset' = bucketOffset + 1
    /\ UNCHANGED <<devVars, hashVars, walkVars, unhandledRejections, alive, pc, fileMap, jwt, jwtRequests,
                   checkMissingCalls, missingHashes, sortedFiles, schedVars, endVars>>

NextPlan == PlanStep

SpecPlan == InitPlan /\ [][NextPlan]_vars

\* ------------------------------------------------------------------ one placement
\* the body of the planner loop as a function of (buckets, file, bucketOffset):
\* the loop resumed at any file, with the files before it in any buckets that
\* respect both limits
RECURSIVE FilesOf(_, _, _)
\* the files of fs that the assignment a gives to bucket b, in the order of fs
FilesOf(fs, a, b) ==
    IF fs = << >> THEN << >>
    ELSE LET n == Len(fs)
             front == FilesOf(SubSeq(fs, 1, n - 1), a, b)
         IN  IF a[n] = b THEN Append(front, fs[n]) ELSE front

Arrangement(fs, nb, a) ==
    [b \in 1..nb |->
        [files |-> FilesOf(fs, a, b),
         remainingSize |-> MAX_BUCKET_SIZE - SumSizes(FilesOf(fs, a, b))]]

\* the bucket arrays that hold the files fs: the initial buckets and at most one
\* pushed bucket, which is never empty
Arrangements(fs) ==
    UNION {{Arrangement(fs, nb, a) : a \in [1..Len(fs) -> 1..nb]} :
              nb \in BULK_UPLOAD_CONCURRENCY..(BULK_UPLOAD_CONCURRENCY + 1)}

WithinLimits(bs) ==
    \A b \in 1..Len(bs) :
        /\ bs[b].remainingSize >= 0
        /\ Len(bs[b].files) <= MAX_BUCKET_FILE_COUNT
        /\ b > BULK_UPLOAD_CONCURRENCY => bs[b].files # << >>

PlaceIndexes(n) == [1..n -> [sizeInBytes : 0..MAX_FILE_SIZE, hash : {"h1"}]]

InitPlace ==
    /\ unhandledRejections = "throw"
    /\ alive = TRUE
    /\ effects = << >> /\ bundle = << >> /\ mounted = FALSE /\ exitCalls = 0 /\ rebuilds = 0
    /\ hashFiles = << >> /\ hashed = << >>
    /\ tree = << >> /\ walkState = << >> /\ walkMap = << >>
    /\ pc = "plan"
    /\ \E n \in 0..MaxPlaceFiles : \E ix \in PlaceIndexes(n) : fileMap = FileMapOf(ix)
    /\ jwt = 1
    /\ jwtRequests = 1
    /\ checkMissingCalls = <<[jwt |-> jwt, hashes |-> HashesOf(fileMap)]>>
    /\ missingHashes = HashSet(fileMap)
    /\ sortedFiles = SortDesc(Filter(fileMap, missingHashes))
    /\ bucketOffset \in 0..(Len(sortedFiles) - 1)
    /\ \E bs \in Arrangements(SubSeq(sortedFiles, 1, bucketOffset)) :
        /\ WithinLimits(bs)
        /\ buckets = bs
    /\ counter = 0
    /\ tasks = << >>
    /\ fatalErrors = << >>
    /\ successLogged = << >>
    /\ upsertCalls = << >>
    /\ upsertCaught = [hasCode |-> FALSE, code |-> 0]
    /\ upsertLog = << >>
    /\ warned = FALSE
    /\ thrown = << >>
    /\ manifest = << >>

SpecPlace == InitPlace /\ [][NextPlan]_vars

\* ------------------------------------------------------------------ the hash of a file
\* what walk computes for a file it read; strings are sequences of characters
NameChars == {"A", "."}

ContentBytes == {0, 255}

RECURSIVE SeqsUpTo(_, _)
\* the sequences over S of length at most n
SeqsUpTo(S, n) ==
    IF n = 0 THEN {<< >>}
    ELSE SeqsUpTo(S, n - 1) \cup {Append(q, x) : q \in {r \in SeqsUpTo(S, n - 1) : Len(r) = n - 1}, x \in S}

\* the names readdir can return: not empty, not "." and not ".."
FileNames == SeqsUpTo(NameChars, MaxNameLen) \ {<< >>, <<".">>, <<".", ".">>}

\* the base64 alphabet
B64 == <<"A", "B", "C", "D", "E", "F", "G", "H", "I", "J", "K", "L", "M", "N", "O", "P",
         "Q", "R", "S", "T", "U", "V", "W", "X", "Y", "Z", "a", "b", "c", "d", "e", "f",
         "g", "h", "i", "j", "k", "l", "m", "n", "o", "p", "q", "r", "s", "t", "u", "v",
         "w", "x", "y", "z", "0", "1", "2", "3", "4", "5", "6", "7", "8", "9", "+", "/">>

RECURSIVE Base64(_)
\* fileContent.toString("base64")
Base64(bytes) ==
    IF bytes = << >> THEN << >>
    ELSE IF Len(bytes) = 1
    THEN <<B64[(bytes[1] \div 4) + 1], B64[((bytes[1] % 4) * 16) + 1], "=", "=">>
    ELSE IF Len(bytes) = 2
    THEN <<B64[(bytes[1] \div 4) + 1],
           B64[((bytes[1] % 4) * 16 + (bytes[2] \div 16)) + 1],
           B64[((bytes[2] % 16) * 4) + 1], "=">>
    ELSE <<B64[(bytes[1] \div 4) + 1],
           B64[((bytes[1] % 4) * 16 + (bytes[2] \div 16)) + 1],
           B64[((bytes[2] % 16) * 4 + (bytes[3] \div 64)) + 1],
           B64[(bytes[3] % 64) + 1]>> \o Base64(SubSeq(bytes, 4, Len(bytes)))

RECURSIVE PathName(_, _)
\* filepath.split(sep).slice(1).join("/") at depth > 0, file at depth 0: the
\* directories below `directory` and the file, joined with "/"
PathName(dir, file) ==
    IF dir = << >> THEN file ELSE Head(dir) \o <<"/">> \o PathName(Tail(dir), file)

\* the positions of character c in name
Positions(name, c) == {k \in 1..Len(name) : name[k] = c}

Last(S) == CHOOSE k \in S : \A l \in S : l <= k

\* basename(name)
Basename(name) ==
    IF Positions(name, "/") = {} THEN name
    ELSE SubSeq(name, Last(Positions(name, "/")) + 1, Len(name))

\* extname(base): from the last "." on, nothing when there is no "." or the last
\* one is the first character, or for ".."
Extname(base) ==
    IF Positions(base, ".") = {} \/ Last(Positions(base, ".")) = 1 \/ base = <<".", ".">>
    THEN << >>
    ELSE SubSeq(base, Last(Positions(base, ".")), Len(base))

\* extname(basename(name)).substring(1)
Extension(name) ==
    IF Extname(Basename(name)) = << >> THEN << >> ELSE Tail(Extname(Basename(name)))

\* hash(input).toString("hex").slice(0, 32): blake3 is taken as free of
\* collisions, a digest stands for the one input that has it
Blake3Hex32(input) == [blake3 |-> input]

\* FileHash without the extension
FileHash_NoExtension(content, name) == Blake3Hex32(Base64(content))

\* FileHash with the whole name for the extension
FileHash_WholeName(content, name) == Blake3Hex32(Base64(content) \o name)

\* hash(base64Content + extension).toString("hex").slice(0, 32)
FileHash(content, name) == Blake3Hex32(Base64(content) \o Extension(name))

\* the value of fileMap.set(name, {...}) for a file read
EntryOf(f) ==
    [name |-> PathName(f.dir, f.file),
     sizeInBytes |-> f.size,
     hash |-> FileHash(f.content, PathName(f.dir, f.file))]

\* two files: the first in `directory` with the size of its content, the second
\* in `directory` or in a directory below it, with any size reported by stat
InitHash ==
    /\ unhandledRejections = "throw"
    /\ alive = TRUE
    /\ effects = << >> /\ bundle = << >> /\ mounted = FALSE /\ exitCalls = 0 /\ rebuilds = 0
    /\ \E n1, n2 \in FileNames :
       \E c1, c2 \in SeqsUpTo(ContentBytes, MaxContentLen) :
       \E d2 \in {<< >>, <<<<"A", ".", "A">>>>} :
       \E s2 \in {Len(c2), Len(c2) + 1} :
           hashFiles = <<[dir |-> << >>, file |-> n1, content |-> c1, size |-> Len(c1)],
                         [dir |-> d2, file |-> n2, content |-> c2, size |-> s2]>>
    /\ hashed = <<<< >>, << >>>>
    /\ tree = << >> /\ walkState = << >> /\ walkMap = << >>
    /\ pc = "walk"
    /\ fileMap = << >>
    /\ jwt = 0
    /\ jwtRequests = 0
    /\ checkMissingCalls = << >>
    /\ missingHashes = {}
    /\ sortedFiles = << >>
    /\ buckets = << >>
    /\ bucketOffset = 0
    /\ counter = 0
    /\ tasks = << >>
    /\ fatalErrors = << >>
    /\ successLogged = << >>
    /\ upsertCalls = << >>
    /\ upsertCaught = [hasCode |-> FALSE, code |-> 0]
    /\ upsertLog = << >>
    /\ warned = FALSE
    /\ thrown = << >>
    /\ manifest = << >>

\* readFile of file k resolved: its name, base64 content, extension and hash
HashFile(k) ==
    /\ k \in 1..Len(hashFiles) /\ hashed[k] = << >>
    /\ hashed' = [hashed EXCEPT ![k] = <<EntryOf(hashFiles[k])>>]
    /\ UNCHANGED <<devVars, hashFiles, walkVars, unhandledRejections, alive, pc, fileMap, jwt,
                   jwtRequests, checkMissingCalls, missingHashes, planVars, schedVars,
                   endVars>>

NextHash == \E k \in 1..2 : HashFile(k)

SpecHash == InitHash /\ [][NextHash]_vars

\* two files of `directory` with longer names and contents of zero bytes
InputNames == SeqsUpTo(NameChars, MaxInputNameLen) \ {<< >>, <<".">>, <<".", ".">>}

InputContents == SeqsUpTo({0}, MaxInputContentLen)

InitHashInput ==
    /\ unhandledRejections = "throw"
    /\ alive = TRUE
    /\ effects = << >> /\ bundle = << >> /\ mounted = FALSE /\ exitCalls = 0 /\ rebuilds = 0
    /\ \E n1, n2 \in InputNames :
       \E c1, c2 \in InputContents :
           hashFiles = <<[dir |-> << >>, file |-> n1, content |-> c1, size |-> Len(c1)],
                         [dir |-> << >>, file |-> n2, content |-> c2, size |-> Len(c2)]>>
    /\ hashed = <<<< >>, << >>>>
    /\ tree = << >> /\ walkState = << >> /\ walkMap = << >>
    /\ pc = "walk"
    /\ fileMap = << >>
    /\ jwt = 0
    /\ jwtRequests = 0
    /\ checkMissingCalls = << >>
    /\ missingHashes = {}
    /\ sortedFiles = << >>
    /\ buckets = << >>
    /\ bucketOffset = 0
    /\ counter = 0
    /\ tasks = << >>
    /\ fatalErrors = << >>
    /\ successLogged = << >>
    /\ upsertCalls = << >>
    /\ upsertCaught = [hasCode |-> FALSE, code |-> 0]
    /\ upsertLog = << >>
    /\ warned = FALSE
    /\ thrown = << >>
    /\ manifest = << >>

SpecHashInput == InitHashInput /\ [][NextHash]_vars

\* ------------------------------------------------------------------ walk
\* the walk of `directory` up to the answer to the first request of upload()
IGNORE_LIST == <<"_worker.js", "_redirects", "_headers", ".DS_Store", "node_modules", ".git">>

\* IGNORE_LIST.includes(file)
Ignored(file) == \E k \in 1..Len(IGNORE_LIST) : IGNORE_LIST[k] = file

\* the `directory` argument, split at sep
Directory == <<"public">>

\* the files read: those of the index, and one above the size limit
WalkBlobs == Blobs \cup {[hash |-> "h3", sizeInBytes |-> MAX_FILE_SIZE + 1]}

\* what entry i of a tree t can be: a file or a directory, in `directory` or in
\* an earlier directory, with a name of its own
EntriesFor(t, i) ==
    LET parents == {0} \cup {d \in 1..Len(t) : t[d].kind = "dir"}
        names == {Names[i], IGNORE_LIST[i]}
    IN  {[name |-> nm, parent |-> d, kind |-> "file",
          sizeInBytes |-> b.sizeInBytes, hash |-> b.hash] :
            nm \in names, d \in parents, b \in WalkBlobs}
        \cup {[name |-> nm, parent |-> d, kind |-> "dir", sizeInBytes |-> 0, hash |-> ""] :
            nm \in names, d \in parents}

RECURSIVE Trees(_)
Trees(n) ==
    IF n = 0 THEN {<< >>}
    ELSE UNION {{Append(t, e) : e \in EntriesFor(t, n)} : t \in Trees(n - 1)}

\* the names from `directory` (excluded) down to entry n
RECURSIVE Segments(_, _)
Segments(t, n) ==
    IF t[n].parent = 0 THEN <<t[n].name>>
    ELSE Append(Segments(t, t[n].parent), t[n].name)

\* the depth argument of the walk that visits entry n
Depth(t, n) == Len(Segments(t, n)) - 1

RECURSIVE Join(_)
Join(segs) == IF Len(segs) = 1 THEN segs[1] ELSE segs[1] \o "/" \o Join(Tail(segs))

\* depth ? filepath.split(sep).slice(1).join("/") : file
NameOf(t, n) ==
    IF Depth(t, n) # 0 THEN Join(Tail(Directory \o Segments(t, n))) ELSE t[n].name

Children(t, d) == {n \in 1..Len(t) : t[n].parent = d}

\* fileMap.set(name, {...})
MapSet(m, e) ==
    IF \E k \in 1..Len(m) : m[k].name = e.name
    THEN [k \in 1..Len(m) |-> IF m[k].name = e.name THEN e ELSE m[k]]
    ELSE Append(m, e)

\* TooLarge with >= for >
TooLarge_AtLimit(size) == size >= MAX_FILE_SIZE

\* filestat.size > 25 * 1024 * 1024
TooLarge(size) == size > MAX_FILE_SIZE

\* files.map(async (file) => ...) in walk(d): every callback runs up to its stat()
StartCallbacks(ws, t, d) == [n \in 1..Len(t) |-> IF t[n].parent = d THEN "stat" ELSE ws[n]]

\* Promise.all of walk(d) resolved
AllResolved(ws, t, d) == \A n \in Children(t, d) : ws[n] \in {"done", "skipped"}

\* a callback of walk(d) resolved: once all have, walk(d) resolves and with it
\* the callback of d in the walk of its parent
RECURSIVE Resolve(_, _, _)
Resolve(ws, t, d) ==
    IF d = 0 \/ ~AllResolved(ws, t, d) THEN ws
    ELSE Resolve([ws EXCEPT ![d] = "done"], t, t[d].parent)

\* const fileMap = await walk(directory) resumes when the outer walk resolved
WalkSettled(ws, m) ==
    /\ walkState' = ws
    /\ walkMap' = m
    /\ IF AllResolved(ws, tree, 0)
       THEN pc' = "start" /\ fileMap' = m
       ELSE UNCHANGED <<pc, fileMap>>

InitWalk ==
    /\ unhandledRejections = "throw"
    /\ alive = TRUE
    /\ effects = << >> /\ bundle = << >> /\ mounted = FALSE /\ exitCalls = 0 /\ rebuilds = 0
    /\ hashFiles = << >> /\ hashed = << >>
    /\ \E n \in 0..MaxWalkEntries : tree \in Trees(n)
    /\ walkState = [n \in 1..Len(tree) |-> "unvisited"]
    /\ walkMap = << >>
    /\ pc = "readdir"
    /\ fileMap = << >>
    /\ jwt = 0
    /\ jwtRequests = 0
    /\ checkMissingCalls = << >>
    /\ missingHashes = {}
    /\ sortedFiles = << >>
    /\ buckets = << >>
    /\ bucketOffset = 0
    /\ counter = 0
    /\ tasks = << >>
    /\ fatalErrors = << >>
    /\ successLogged = << >>
    /\ upsertCalls = << >>
    /\ upsertCaught = [hasCode |-> FALSE, code |-> 0]
    /\ upsertLog = << >>
    /\ warned = FALSE
    /\ thrown = << >>
    /\ manifest = << >>

\* readdir(directory) resolves and the callbacks of its entries start
ReaddirDone ==
    /\ alive /\ pc = "readdir"
    /\ IF Children(tree, 0) = {}
       THEN WalkSettled(walkState, walkMap)
       ELSE /\ walkState' = StartCallbacks(walkState, tree, 0)
            /\ pc' = "walk"
            /\ UNCHANGED <<walkMap, fileMap>>
    /\ UNCHANGED <<devVars, hashVars, tree, unhandledRejections, alive, jwt, jwtRequests,
                   checkMissingCalls, missingHashes, planVars, schedVars, endVars>>

\* whether entry e is a symbolic link
IsLink(e) == "link" \in DOMAIN e

\* what entry i of a tree t can be when it is a symbolic link: to a file, to a
\* directory (its children are the entries of the target, seen through the
\* link) or to nothing
LinkEntriesFor(t, i) ==
    LET parents == {0} \cup {d \in 1..Len(t) : t[d].kind = "dir"}
        names == {Names[i], IGNORE_LIST[i]}
    IN  {[name |-> nm, parent |-> d, kind |-> k, link |-> TRUE,
          sizeInBytes |-> IF k = "file" THEN 1 ELSE 0,
          hash |-> IF k = "file" THEN "h1" ELSE ""] :
            nm \in names, d \in parents, k \in {"file", "dir", "none"}}

RECURSIVE LinkTrees(_)
LinkTrees(n) ==
    IF n = 0 THEN {<< >>}
    ELSE UNION {{Append(t, e) : e \in EntriesFor(t, n) \cup LinkEntriesFor(t, n)} :
                    t \in LinkTrees(n - 1)}

\* await stat(filepath): stat follows symbolic links, the Stats it resolves with
\* are those of the target, and it rejects when there is none
Stat(t, n) ==
    [rejects |-> t[n].kind = "none",
     isSymbolicLink |-> FALSE,
     isDirectory |-> t[n].kind = "dir",
     size |-> t[n].sizeInBytes]

\* stat(filepath) of entry n settles: a rejection rejects every walk above it
\* and upload(); ignored entries and symbolic links return, a directory is
\* walked (its readdir and the start of its callbacks), a file is read
StatDone(n) ==
    /\ alive
    /\ n \in 1..Len(tree) /\ walkState[n] = "stat"
    /\ IF Stat(tree, n).rejects
       THEN /\ walkState' = [walkState EXCEPT ![n] = "threw"]
            /\ IF pc = "walk"
               THEN /\ pc' = "threw"
                    /\ thrown' = <<[fatal |-> FALSE, hasCode |-> TRUE, code |-> "ENOENT"]>>
               ELSE UNCHANGED <<pc, thrown>>
            /\ UNCHANGED <<walkMap, fileMap>>
       ELSE /\ UNCHANGED thrown
            /\ IF Ignored(tree[n].name) \/ Stat(tree, n).isSymbolicLink
               THEN WalkSettled(Resolve([walkState EXCEPT ![n] = "skipped"], tree,
                                        tree[n].parent),
                                walkMap)
               ELSE IF Stat(tree, n).isDirectory
               THEN IF Children(tree, n) = {}
                    THEN WalkSettled(Resolve([walkState EXCEPT ![n] = "done"], tree,
                                             tree[n].parent),
                                     walkMap)
                    ELSE /\ walkState' = StartCallbacks([walkState EXCEPT ![n] = "walking"],
                                                        tree, n)
                         /\ UNCHANGED <<pc, walkMap, fileMap>>
               ELSE /\ walkState' = [walkState EXCEPT ![n] = "read"]
                    /\ UNCHANGED <<pc, walkMap, fileMap>>
    /\ UNCHANGED <<devVars, hashVars, tree, unhandledRejections, alive, jwt, jwtRequests,
                   checkMissingCalls, missingHashes, planVars, schedVars,
                   successLogged, upsertCalls, upsertCaught, upsertLog, warned,
                   manifest>>

\* readFile(filepath) of entry n resolves: the size test throws an Error, which
\* rejects every walk above it and upload(); else fileMap.set(name, ...)
ReadDone(n) ==
    /\ alive
    /\ n \in 1..Len(tree) /\ walkState[n] = "read"
    /\ IF TooLarge(tree[n].sizeInBytes)
       THEN /\ walkState' = [walkState EXCEPT ![n] = "threw"]
            /\ IF pc = "walk"
               THEN /\ pc' = "threw"
                    /\ thrown' = <<[fatal |-> FALSE, hasCode |-> FALSE, code |-> 0]>>
               ELSE UNCHANGED <<pc, thrown>>
            /\ UNCHANGED <<walkMap, fileMap>>
       ELSE /\ WalkSettled(Resolve([walkState EXCEPT ![n] = "done"], tree, tree[n].parent),
                           MapSet(walkMap, [name |-> NameOf(tree, n),
                                            sizeInBytes |-> tree[n].sizeInBytes,
                                            hash |-> tree[n].hash]))
            /\ UNCHANGED thrown
    /\ UNCHANGED <<devVars, hashVars, tree, unhandledRejections, alive, jwt, jwtRequests,
                   checkMissingCalls, missingHashes, planVars, schedVars,
                   successLogged, upsertCalls, upsertCaught, upsertLog, warned,
                   manifest>>

NextWalk ==
    \/ ReaddirDone
    \/ \E n \in 1..MaxWalkEntries : StatDone(n)
    \/ \E n \in 1..MaxWalkEntries : ReadDone(n)
    \/ CheckFileCount
    \/ FetchJwtOk
    \/ FetchJwtFail

SpecWalk == InitWalk /\ [][NextWalk]_vars

\* the walk of a directory that may hold symbolic links
InitLinks ==
    /\ unhandledRejections = "throw"
    /\ alive = TRUE
    /\ effects = << >> /\ bundle = << >> /\ mounted = FALSE /\ exitCalls = 0 /\ rebuilds = 0
    /\ hashFiles = << >> /\ hashed = << >>
    /\ \E n \in 0..MaxLinkEntries : tree \in LinkTrees(n)
    /\ walkState = [n \in 1..Len(tree) |-> "unvisited"]
    /\ walkMap = << >>
    /\ pc = "readdir"
    /\ fileMap = << >>
    /\ jwt = 0
    /\ jwtRequests = 0
    /\ checkMissingCalls = << >>
    /\ missingHashes = {}
    /\ sortedFiles = << >>
    /\ buckets = << >>
    /\ bucketOffset = 0
    /\ counter = 0
    /\ tasks = << >>
    /\ fatalErrors = << >>
    /\ successLogged = << >>
    /\ upsertCalls = << >>
    /\ upsertCaught = [hasCode |-> FALSE, code |-> 0]
    /\ upsertLog = << >>
    /\ warned = FALSE
    /\ thrown = << >>
    /\ manifest = << >>

SpecLinks == InitLinks /\ [][NextWalk]_vars

\* ------------------------------------------------------------------ useEsbuild
\* the rest of the state, which useEsbuild does not touch
uploadVars == <<hashVars, walkVars, unhandledRejections, alive, pc, fileMap, jwt, jwtRequests,
                checkMissingCalls, missingHashes, planVars, schedVars, endVars>>

\* the effect runs: let stopWatching = undefined; build() returns at once
\* without a destination, else it calls bundleWorker and awaits it
RunEffect(destination) ==
    [build |-> IF destination THEN "pending" ELSE "none",
     stopWatching |-> FALSE,   \* stopWatching has been assigned stop
     watching |-> FALSE,       \* the watcher of this build is running
     cleaned |-> FALSE]        \* the destructor of this run has been called

\* the destructor: stopWatching?.()
Cleanup(e) ==
    [e EXCEPT !.cleaned = TRUE,
              !.watching = IF e.stopWatching THEN FALSE ELSE e.watching]

InitEsbuild ==
    /\ unhandledRejections = "throw"
    /\ alive = TRUE
    /\ \E d \in BOOLEAN : effects = <<RunEffect(d)>>
    /\ bundle = << >>
    /\ mounted = TRUE
    /\ exitCalls = 0
    /\ rebuilds = 0
    /\ hashFiles = << >> /\ hashed = << >>
    /\ tree = << >> /\ walkState = << >> /\ walkMap = << >>
    /\ pc = "start"
    /\ fileMap = << >>
    /\ jwt = 0
    /\ jwtRequests = 0
    /\ checkMissingCalls = << >>
    /\ missingHashes = {}
    /\ sortedFiles = << >>
    /\ buckets = << >>
    /\ bucketOffset = 0
    /\ counter = 0
    /\ tasks = << >>
    /\ fatalErrors = << >>
    /\ successLogged = << >>
    /\ upsertCalls = << >>
    /\ upsertCaught = [hasCode |-> FALSE, code |-> 0]
    /\ upsertLog = << >>
    /\ warned = FALSE
    /\ thrown = << >>
    /\ manifest = << >>

\* a dependency changed: the destructor of the last run, then the effect again
DepsChange(destination) ==
    /\ mounted /\ Len(effects) < MaxEffects
    /\ effects' = Append([effects EXCEPT ![Len(effects)] = Cleanup(@)],
                         RunEffect(destination))
    /\ UNCHANGED <<bundle, mounted, exitCalls, rebuilds, uploadVars>>

\* the component is unmounted: the destructor of the last run
Unmount ==
    /\ mounted
    /\ effects' = [effects EXCEPT ![Len(effects)] = Cleanup(@)]
    /\ mounted' = FALSE
    /\ UNCHANGED <<bundle, exitCalls, rebuilds, uploadVars>>

\* bundleWorker of run e resolves, its watcher running: stopWatching = stop;
\* setBundle({id: 0, ...}), which an unmounted component ignores
BuildResolved(e) ==
    /\ e \in 1..Len(effects) /\ effects[e].build = "pending"
    /\ effects' = [effects EXCEPT ![e].build = "resolved", ![e].stopWatching = TRUE,
                                  ![e].watching = TRUE]
    /\ bundle' = IF mounted THEN <<[effect |-> e, id |-> 0]>> ELSE bundle
    /\ UNCHANGED <<mounted, exitCalls, rebuilds, uploadVars>>

\* bundleWorker of run e rejects: exit(err), which unmounts the app
BuildRejected(e) ==
    /\ e \in 1..Len(effects) /\ effects[e].build = "pending"
    /\ exitCalls' = exitCalls + 1
    /\ mounted' = FALSE
    /\ effects' = [k \in 1..Len(effects) |->
                       IF k = e THEN [(IF mounted /\ k = Len(effects)
                                       THEN Cleanup(effects[k]) ELSE effects[k])
                                         EXCEPT !.build = "rejected"]
                       ELSE IF mounted /\ k = Len(effects) THEN Cleanup(effects[k])
                       ELSE effects[k]]
    /\ UNCHANGED <<bundle, rebuilds, uploadVars>>

\* the watcher of run e calls onRebuild(error): logger.error, or setBundle with
\* the id of the previous bundle plus one
Rebuild(e, error) ==
    /\ e \in 1..Len(effects) /\ effects[e].watching
    /\ rebuilds < MaxRebuilds
    /\ rebuilds' = rebuilds + 1
    /\ bundle' = IF ~error /\ mounted /\ bundle # << >>
                 THEN <<[bundle[1] EXCEPT !.id = @ + 1]>>
                 ELSE bundle
    /\ UNCHANGED <<effects, mounted, exitCalls, uploadVars>>

NextEsbuild ==
    \/ \E d \in BOOLEAN : DepsChange(d)
    \/ Unmount
    \/ \E e \in 1..MaxEffects : BuildResolved(e)
    \/ \E e \in 1..MaxEffects : BuildRejected(e)
    \/ \E e \in 1..MaxEffects : \E error \in BOOLEAN : Rebuild(e, error)

SpecEsbuild == InitEsbuild /\ [][NextEsbuild]_vars


\* ================================================================== claims
TaskIds == 1..Len(tasks)

\* the batches whose upload call failed on every attempt the code makes
Exhausted(ts) ==
    {i \in 1..Len(ts) : ts[i].state = "failed" /\ ts[i].calls > MAX_UPLOAD_ATTEMPTS}

AfterScheduler == pc \in {"upsert1", "upsertSleep", "upsertRefresh", "upsert2", "returned"}

\* C1: if a batch permanently fails, the run does not report success, issues no
\* commit call and returns no manifest.
C1_PermanentFailureIsFatal ==
    Exhausted(tasks) # {} =>
        /\ successLogged = << >>
        /\ upsertCalls = << >>
        /\ manifest = << >>

\* C2: a batch that had not been started is never dispatched once a batch has
\* permanently failed: no step takes a batch out of the queue and ends with a
\* failed batch.
C2_NoDispatchAfterLatch ==
    [][\A i \in TaskIds :
          (tasks[i].state = "queued" /\ tasks'[i].state # "queued")
              => Exhausted(tasks') = {}]_vars

\* C3: the steps after the scheduler (success log, commit call, manifest) are
\* never reached while a batch task is queued, uploading, sleeping in backoff
\* or refreshing the token.
C3_SchedulerIsBarrier ==
    (AfterScheduler \/ successLogged # << >> \/ upsertCalls # << >> \/ manifest # << >>)
        => (Pending(tasks) = {} /\ Queued(tasks) = {})

C3_Witness ==
    /\ AfterScheduler
    /\ \E i, k \in TaskIds :
        /\ i # k
        /\ tasks[i].state = "done" /\ tasks[i].refreshes > 0
        /\ tasks[k].state = "done" /\ Len(tasks[k].delays) = MAX_UPLOAD_ATTEMPTS

\* C4: the number of batches started and not yet settled (uploading, sleeping
\* in backoff, refreshing) never exceeds BULK_UPLOAD_CONCURRENCY, which is also
\* the number of batches the planner starts with.
C4_BoundedConcurrency ==
    /\ Cardinality(Pending(tasks)) <= BULK_UPLOAD_CONCURRENCY
    /\ Len(InitialBuckets) = BULK_UPLOAD_CONCURRENCY
    /\ pc \notin {"start", "fetchJwt", "checkMissing", "threw"}
           => Len(buckets) >= BULK_UPLOAD_CONCURRENCY

C4_Witness ==
    /\ Cardinality(Pending(tasks)) = BULK_UPLOAD_CONCURRENCY
    /\ Queued(tasks) # {}
    /\ \E i, k \in TaskIds : tasks[i].state = "sleeping" /\ tasks[k].state = "refreshing"

\* C5: the upload call of a batch is issued at most MAX_UPLOAD_ATTEMPTS times,
\* the first attempt included.
C5_AtMostMaxAttemptsCalls ==
    \A i \in TaskIds : tasks[i].calls <= MAX_UPLOAD_ATTEMPTS

\* C6: the wait before the k-th retry of a batch is k-1 seconds (0, 1, 2, ...),
\* whatever the other batches do.
C6_LinearBackoff ==
    \A i \in TaskIds :
        /\ \A k \in 1..Len(tasks[i].delays) : tasks[i].delays[k] = k - 1
        /\ Len(tasks[i].delays) = tasks[i].attempts

C6_Witness ==
    \E i, k \in TaskIds :
        /\ i # k
        /\ tasks[i].delays = <<0, 1>>
        /\ tasks[k].state = "failed"

\* C7: after an upload failure with the expiry code, the next thing the worker
\* does is a token fetch started then (a new request), and the retried upload
\* call is issued when that fetch has resolved, carrying the token it returned,
\* which is the shared token at that moment and not the token of the failed call;
\* an upload call is issued in no other way after such a failure.
C7_RefreshBeforeRetry ==
    [][\A i \in TaskIds :
          /\ (tasks[i].state = "sleeping" /\ tasks[i].expired
                  /\ tasks'[i].state # "sleeping")
                => /\ tasks'[i].state = "refreshing"
                   /\ tasks'[i].calls = tasks[i].calls
                   /\ tasks'[i].reqId = jwtRequests'
                   /\ jwtRequests' = jwtRequests + 1
                   /\ tasks'[i].reqId > tasks[i].callJwt
          /\ (tasks[i].state = "refreshing" /\ tasks'[i].state # "refreshing")
                => \/ tasks'[i].state = "failed" /\ tasks'[i].calls = tasks[i].calls
                   \/ /\ tasks'[i].state = "uploading"
                      /\ tasks'[i].calls = tasks[i].calls + 1
                      /\ tasks'[i].callJwt = tasks[i].reqId
                      /\ tasks'[i].callJwt # tasks[i].callJwt
                      /\ jwt' = tasks[i].reqId]_vars

C7_Witness ==
    \E i, k \in TaskIds :
        /\ i # k
        /\ tasks[i].state = "uploading" /\ tasks[i].refreshes = 1
        /\ tasks[i].callJwt = jwt /\ jwt > 1
        /\ tasks[k].state = "uploading" /\ tasks[k].callJwt = 1

RECURSIVE DoneFiles(_)
\* the files of the buckets 1..n whose upload call got a successful response
DoneFiles(n) ==
    IF n = 0 THEN 0
    ELSE DoneFiles(n - 1)
           + (IF tasks[n].state = "done" THEN Len(buckets[n].files) ELSE 0)

ExpiredTwiceThenOk(i) == tasks[i].outcomes = <<"expired", "expired", "ok">>

\* C8: a batch whose upload call fails with the expiry code twice and then
\* succeeds is a success: no fatal error is built for it, its files are counted
\* once, at least one token refresh happened, the two retries waited 0 s and
\* 1 s, and if no other batch failed the run goes on to report success.
C8_ExpiredTwiceThenSuccess ==
    \A i \in TaskIds :
        ExpiredTwiceThenOk(i) =>
            /\ tasks[i].state = "done"
            /\ tasks[i].counted = 1
            /\ counter = Len(fileMap) - Len(sortedFiles) + DoneFiles(Len(tasks))
            /\ tasks[i].refreshes >= 1
            /\ tasks[i].delays = <<0, 1>>
            /\ tasks[i].calls = 3
            /\ (\A k \in TaskIds : tasks[k].state \in {"done", "skipped"})
                   => /\ AfterScheduler
                      /\ successLogged # << >>
                      /\ fatalErrors = << >>
                      /\ thrown = << >>

C8_Witness ==
    /\ pc = "returned"
    /\ \E i, k \in TaskIds :
        /\ ExpiredTwiceThenOk(i)
        /\ tasks[k].state = "done" /\ tasks[k].outcomes = <<"ok">>

\* C9: at most one fatal error is built in a run, and it carries a code.
C9_AtMostOneFatalError ==
    /\ Len(fatalErrors) <= 1
    /\ \A k \in 1..Len(fatalErrors) : fatalErrors[k] # 0

RECURSIVE Placed(_)
\* the files of all buckets, bucket after bucket
Placed(bs) == IF bs = << >> THEN << >> ELSE Head(bs).files \o Placed(Tail(bs))

Count(fs, name) == Cardinality({k \in 1..Len(fs) : fs[k].name = name})

RECURSIVE UploadSetSize(_)
\* the sum of the sizes of the first n indexed files whose hash is missing
UploadSetSize(n) ==
    IF n = 0 THEN 0
    ELSE UploadSetSize(n - 1)
           + (IF fileMap[n].hash \in missingHashes THEN fileMap[n].sizeInBytes ELSE 0)

PlanComplete == pc = "plan" /\ bucketOffset = Len(sortedFiles)

\* C10: the finished plan is a partition of the upload set: every indexed file
\* whose hash is missing is in exactly one bucket, exactly once; no other file
\* is in a bucket; the bucket sizes add up to the size of the upload set.
C10_PlanIsPartition ==
    PlanComplete =>
        /\ \A i \in 1..Len(fileMap) :
              Count(Placed(buckets), fileMap[i].name)
                  = (IF fileMap[i].hash \in missingHashes THEN 1 ELSE 0)
        /\ \A k \in 1..Len(Placed(buckets)) :
              \E i \in 1..Len(fileMap) : Placed(buckets)[k] = fileMap[i]
        /\ SumSizes(Placed(buckets)) = UploadSetSize(Len(fileMap))

C10_Witness ==
    /\ PlanComplete
    /\ Len(buckets) > BULK_UPLOAD_CONCURRENCY
    /\ Len(sortedFiles) >= 4
    /\ Len(fileMap) > Len(sortedFiles)
    /\ \E b \in 1..Len(buckets) : Len(buckets[b].files) = MAX_BUCKET_FILE_COUNT

\* C11: at every step of planning and in the finished plan, every bucket holds
\* at most MAX_BUCKET_FILE_COUNT files of total size at most MAX_BUCKET_SIZE, and
\* its remainingSize is MAX_BUCKET_SIZE minus that total and is not negative.
C11_BucketCeilings ==
    pc = "plan" =>
        \A b \in 1..Len(buckets) :
            /\ Len(buckets[b].files) <= MAX_BUCKET_FILE_COUNT
            /\ SumSizes(buckets[b].files) <= MAX_BUCKET_SIZE
            /\ buckets[b].remainingSize = MAX_BUCKET_SIZE - SumSizes(buckets[b].files)
            /\ buckets[b].remainingSize >= 0

C11_Witness ==
    /\ pc = "plan"
    /\ Len(buckets) > BULK_UPLOAD_CONCURRENCY
    /\ \E b, c \in 1..Len(buckets) :
        /\ buckets[b].remainingSize = 0
        /\ Len(buckets[c].files) = MAX_BUCKET_FILE_COUNT /\ buckets[c].remainingSize > 0

\* C12: when check-missing reports no missing hash, no upload call is made, the
\* run never fails (no error thrown, no task failure, success logged with zero
\* uploads) and the manifest it returns is the manifest of the whole index.
C12_NothingMissing ==
    ((pc = "onIdle" \/ AfterScheduler) /\ missingHashes = {}) =>
        /\ \A i \in TaskIds : tasks[i].calls = 0 /\ tasks[i].state = "skipped"
        /\ sortedFiles = << >>
        /\ AfterScheduler
        /\ alive /\ thrown = << >> /\ fatalErrors = << >>
        /\ successLogged = <<[uploaded |-> 0, skipped |-> Len(fileMap)]>>
        /\ pc = "returned" => manifest = <<Manifest(fileMap)>>

C12_Witness ==
    /\ pc = "returned"
    /\ missingHashes = {}
    /\ Len(fileMap) >= 2
    /\ Len(tasks) = BULK_UPLOAD_CONCURRENCY
    /\ manifest # << >>

\* the files of the index whose upload call resolved
Uploaded ==
    {i \in 1..Len(fileMap) :
        \E b \in TaskIds :
            /\ tasks[b].state = "done"
            /\ \E f \in 1..Len(buckets[b].files) : buckets[b].files[f].name = fileMap[i].name}

\* C13: the returned manifest has one entry for each file of the index and no
\* other: its key is "/" followed by the file name and its value is the hash of
\* the file, whether the file was uploaded or not.
C13_ManifestCoversIndex ==
    pc = "returned" =>
        /\ Len(manifest) = 1
        /\ DOMAIN manifest[1] = {"/" \o fileMap[i].name : i \in 1..Len(fileMap)}
        /\ Cardinality(DOMAIN manifest[1]) = Len(fileMap)
        /\ \A i \in 1..Len(fileMap) : manifest[1]["/" \o fileMap[i].name] = fileMap[i].hash

C13_Witness ==
    /\ pc = "returned"
    /\ \E i, k \in 1..Len(fileMap) :
        /\ i \in Uploaded
        /\ k \notin Uploaded /\ fileMap[k].hash \notin missingHashes

\* C14: the returned manifest is determined by the index alone: the index never
\* changes during a run and the manifest returned is a function of it, whatever
\* the dedup answer, the order in which batches settle and the number of token
\* refreshes were; so two runs over the same index return the same manifest.
C14_ManifestDeterministic ==
    /\ [](pc = "returned" => manifest = <<Manifest(fileMap)>>)
    /\ [][fileMap' = fileMap]_vars

C14_Witness ==
    /\ pc = "returned"
    /\ jwtRequests > 2
    /\ missingHashes # {} /\ missingHashes # HashSet(fileMap)
    /\ \E i, k \in TaskIds : i < k /\ tasks[i].state = "done" /\ tasks[k].state = "done"

\* C15: the upsert-hashes call is issued only in a run in which no batch has
\* permanently failed: every batch is done or was skipped as empty.
C15_CommitOnlyAfterSuccess ==
    upsertCalls # << >> => \A i \in TaskIds : tasks[i].state \in {"done", "skipped"}

\* the number of events ev in a log
RECURSIVE CountEvents(_, _)
CountEvents(log, ev) ==
    IF log = << >> THEN 0
    ELSE (IF Head(log).ev = ev THEN 1 ELSE 0) + CountEvents(Tail(log), ev)

\* C16: upsert-hashes is called at most twice. The second call is made only
\* after the first call was rejected and a timer of 1000 ms was set, and between
\* the timer and the second call a token is fetched exactly when the rejection
\* carried code 8000013: the second call then has the new token, otherwise the
\* token of the first call.
C16_CommitRetriedOnce ==
    /\ Len(upsertCalls) <= 2
    /\ CountEvents(upsertLog, "call") = Len(upsertCalls)
    /\ CountEvents(upsertLog, "timer") <= 1
    /\ Len(upsertCalls) = 2 =>
        /\ SubSeq(upsertLog, 1, 3) = <<Event("call"), Event("rejected"), Timer(1000)>>
        /\ IF IsExpired(upsertCaught)
           THEN /\ SubSeq(upsertLog, 4, 5) = <<Event("fetchJwt"), Event("call")>>
                /\ upsertCalls[2].jwt = jwtRequests
                /\ upsertCalls[2].jwt # upsertCalls[1].jwt
           ELSE /\ upsertLog[4] = Event("call")
                /\ CountEvents(upsertLog, "fetchJwt") = 0
                /\ upsertCalls[2].jwt = upsertCalls[1].jwt

C16_Witness ==
    /\ Len(upsertCalls) = 2
    /\ IsExpired(upsertCaught)
    /\ upsertCalls[2].jwt > upsertCalls[1].jwt
    /\ upsertCalls[1].jwt > 1
    /\ pc = "returned" /\ ~warned

C16_WitnessNoRefresh ==
    /\ Len(upsertCalls) = 2
    /\ ~IsExpired(upsertCaught)
    /\ pc = "returned" /\ warned

\* C17: when both upsert-hashes calls were rejected, upload() has logged the
\* warning and returned the manifest of the index, the one it returns when an
\* upsert-hashes call resolves, and has not rejected with any error.
C17_CommitFailureNotFatal ==
    CountEvents(upsertLog, "rejected") = 2 =>
        /\ pc = "returned"
        /\ warned
        /\ thrown = << >>
        /\ manifest = <<Manifest(fileMap)>>

C17_Witness ==
    /\ CountEvents(upsertLog, "rejected") = 2
    /\ pc = "returned"
    /\ Len(fileMap) >= 2
    /\ \A i \in TaskIds : tasks[i].state \in {"done", "skipped"}
    /\ \E i \in TaskIds : tasks[i].state = "done"

\* no request has been sent: no fetchJwt, check-missing, upload or upsert-hashes
NoNetworkCall ==
    /\ jwtRequests = 0
    /\ checkMissingCalls = << >>
    /\ \A i \in TaskIds : tasks[i].calls = 0
    /\ upsertCalls = << >>

\* C18: an index of more than MAX_FILE_COUNT files makes upload() reject with a
\* FatalError of code 1 as its first step, before any request is sent; an index
\* of MAX_FILE_COUNT files or fewer passes that step: fetchJwt is requested and
\* no FatalError is thrown.
C18_FileCountLimit ==
    /\ Len(fileMap) > MAX_FILE_COUNT =>
        /\ NoNetworkCall
        /\ pc \in {"start", "threw"}
        /\ pc = "threw" => thrown = <<[fatal |-> TRUE, hasCode |-> TRUE, code |-> 1]>>
    /\ (Len(fileMap) <= MAX_FILE_COUNT /\ pc # "start") =>
        /\ jwtRequests >= 1
        /\ \A k \in 1..Len(thrown) : ~thrown[k].fatal

C18_Witness ==
    /\ Len(fileMap) = MAX_FILE_COUNT + 1
    /\ pc = "threw"
    /\ thrown # << >>

C18_WitnessAccepted ==
    /\ Len(fileMap) = MAX_FILE_COUNT
    /\ pc = "returned"
    /\ Len(sortedFiles) = MAX_FILE_COUNT

\* the number of upload payloads (buckets given to a doUpload) that hold file name
PayloadsWith(name) ==
    Cardinality({b \in TaskIds :
        /\ tasks[b].state # "skipped"
        /\ \E f \in 1..Len(buckets[b].files) : buckets[b].files[f].name = name})

\* C20: once the batches are queued, a file of the index whose hash is in the
\* missing set is in the payload of one batch, exactly once, and a file whose
\* hash is not in it is in no payload; upload calls are made only for those
\* payloads, and when the scheduler ended without a failed batch the upload call
\* of every payload has resolved.
C20_UploadSetIsMissingSet ==
    (pc = "onIdle" \/ AfterScheduler) =>
        /\ \A i \in 1..Len(fileMap) :
            /\ fileMap[i].hash \in missingHashes => PayloadsWith(fileMap[i].name) = 1
            /\ fileMap[i].hash \notin missingHashes => PayloadsWith(fileMap[i].name) = 0
        /\ \A b \in TaskIds :
            /\ \A f \in 1..Len(buckets[b].files) :
                  Count(buckets[b].files, buckets[b].files[f].name) = 1
            /\ tasks[b].calls > 0 => Len(buckets[b].files) > 0
            /\ (AfterScheduler /\ fatalErrors = << >> /\ Len(buckets[b].files) > 0)
                   => (tasks[b].state = "done" /\ tasks[b].calls > 0)

C20_Witness ==
    /\ pc = "returned"
    /\ fatalErrors = << >>
    /\ \E i, k \in 1..Len(fileMap) :
        /\ fileMap[i].hash \in missingHashes /\ i \in Uploaded
        /\ fileMap[k].hash \notin missingHashes /\ k \notin Uploaded
    /\ Cardinality(Uploaded) >= 2

\* the entries walk reaches and reads: files that are not on the ignore list,
\* in `directory` or in directories that are not on it
RECURSIVE Eligible(_, _)
Eligible(t, n) ==
    /\ ~Ignored(t[n].name)
    /\ t[n].parent # 0 => Eligible(t, t[n].parent)

EligibleFiles(t) == {n \in 1..Len(t) : t[n].kind = "file" /\ Eligible(t, n)}

Oversized(t) == {n \in EligibleFiles(t) : t[n].sizeInBytes > MAX_FILE_SIZE}

\* C19: a file of exactly MAX_FILE_SIZE is indexed: when walk has resolved, every
\* file it reaches is in the index with its size, and without a larger file
\* walk never throws. A file of MAX_FILE_SIZE + 1 makes walk throw: whatever
\* the other entries are, the index is never handed to upload(), no request is
\* ever sent, and upload() ends rejected with the error of walk.
C19_FileSizeLimit ==
    /\ Oversized(tree) # {} =>
        /\ fileMap = << >>
        /\ NoNetworkCall
        /\ pc \in {"readdir", "walk", "threw"}
        /\ pc = "threw" => thrown = <<[fatal |-> FALSE, hasCode |-> FALSE, code |-> 0]>>
        /\ manifest = << >>
    /\ Oversized(tree) = {} =>
        /\ \A n \in 1..Len(tree) : walkState[n] # "threw"
        /\ pc = "threw" => (jwtRequests >= 1 \/ thrown[1].fatal)
        /\ pc \notin {"readdir", "walk"} =>
              \A n \in EligibleFiles(tree) :
                  \E k \in 1..Len(fileMap) :
                      /\ fileMap[k].name = NameOf(tree, n)
                      /\ fileMap[k].sizeInBytes = tree[n].sizeInBytes
                      /\ fileMap[k].hash = tree[n].hash
        /\ Len(fileMap) <= Cardinality(EligibleFiles(tree))

C19_Witness ==
    /\ pc = "threw"
    /\ jwtRequests = 0
    /\ \E n, k \in EligibleFiles(tree) :
        /\ tree[n].sizeInBytes = MAX_FILE_SIZE + 1 /\ walkState[n] = "threw"
        /\ tree[k].sizeInBytes = MAX_FILE_SIZE /\ walkState[k] = "done"
        /\ tree[k].parent # 0
        /\ Len(walkMap) = 1

C19_WitnessAccepted ==
    /\ pc = "checkMissing"
    /\ \E n \in EligibleFiles(tree) :
        /\ tree[n].sizeInBytes = MAX_FILE_SIZE
        /\ tree[n].parent # 0
        /\ \E k \in 1..Len(fileMap) : fileMap[k].name = "a/" \o tree[n].name

\* C21: when the check-missing call has failed, upload() has rejected with its
\* error: the call was made once and is not made again, no batch exists and no
\* upload call was made, no success is logged, no upsert-hashes call was made
\* and no manifest is returned; nothing happens afterwards.
C21_CheckMissingFailureIsFatal ==
    /\ [](Len(checkMissingCalls) <= 1)
    /\ []((pc = "threw" /\ checkMissingCalls # << >>) =>
            /\ Len(thrown) = 1 /\ ~thrown[1].fatal
            /\ tasks = << >> /\ buckets = << >>
            /\ successLogged = << >>
            /\ upsertCalls = << >>
            /\ manifest = << >>)
    /\ [][pc = "threw" => UNCHANGED vars]_vars

C21_Witness ==
    /\ pc = "threw"
    /\ Len(checkMissingCalls) = 1
    /\ Len(fileMap) >= 2
    /\ thrown # << >> /\ thrown[1].hasCode

\* the files of the batches whose upload call has resolved
RECURSIVE DoneFileCount(_)
DoneFileCount(n) ==
    IF n = 0 THEN 0
    ELSE (IF tasks[n].state = "done" THEN Len(buckets[n].files) ELSE 0) + DoneFileCount(n - 1)

\* C22: from the moment the batches are queued, the counter is the number of
\* indexed files minus the size of the upload set plus the files of the batches
\* whose upload call has resolved; it never exceeds the number of indexed files,
\* equals it once every batch is done, and no step decreases it.
C22_CounterIsExact ==
    /\ []((pc = "onIdle" \/ AfterScheduler) =>
            /\ counter = (Len(fileMap) - Len(sortedFiles)) + DoneFileCount(Len(tasks))
            /\ counter <= Len(fileMap)
            /\ (\A i \in TaskIds : tasks[i].state \in {"done", "skipped"})
                   => counter = Len(fileMap))
    /\ [][counter' >= counter]_vars

C22_Witness ==
    /\ pc = "onIdle"
    /\ Len(sortedFiles) < Len(fileMap)
    /\ counter = Len(fileMap) - 1
    /\ \E i, k \in TaskIds :
        /\ tasks[i].state = "done"
        /\ tasks[k].state = "uploading" /\ tasks[k].calls > 1

NumberOfOk(outcomes) == Cardinality({k \in 1..Len(outcomes) : outcomes[k] = "ok"})

\* C23: every batch is run by the one task made for it: at most one upload
\* call of a batch is in flight, an empty batch is never sent, a batch that was
\* taken from the queue never returns to it, and a batch whose upload call
\* resolved has one resolved call, its last, and is never touched again.
C23_BatchConsumedOnce ==
    /\ [](\A i \in TaskIds :
            /\ tasks[i].calls - Len(tasks[i].outcomes)
                   = (IF tasks[i].state = "uploading" THEN 1 ELSE 0)
            /\ tasks[i].state = "skipped" <=> Len(buckets[i].files) = 0
            /\ tasks[i].state = "skipped" => tasks[i].calls = 0
            /\ NumberOfOk(tasks[i].outcomes) <= 1
            /\ tasks[i].counted = NumberOfOk(tasks[i].outcomes)
            /\ tasks[i].state = "done"
                   => tasks[i].outcomes[Len(tasks[i].outcomes)] = "ok")
    /\ [][\A i \in TaskIds :
            /\ tasks[i].state # "queued" => tasks'[i].state # "queued"
            /\ tasks[i].state = "done" => tasks'[i] = tasks[i]]_vars

C23_Witness ==
    /\ pc = "onIdle"
    /\ Len(tasks) > BULK_UPLOAD_CONCURRENCY
    /\ \E i, k \in TaskIds :
        /\ tasks[i].state = "done" /\ tasks[i].calls > 1
        /\ tasks[k].state = "uploading" /\ k > BULK_UPLOAD_CONCURRENCY

\* C28: when the upload call of a batch failed with an error that is not the
\* expiry error, neither the failure nor the retry after the backoff fetches a
\* token or changes the shared one: the next step of the batch is a new upload
\* call.
C28_NoRefreshWithoutExpiry ==
    [][\A i \in TaskIds :
        /\ (tasks[i].state = "uploading" /\ tasks'[i].state = "sleeping"
                /\ ~tasks'[i].expired)
               => (jwt' = jwt /\ jwtRequests' = jwtRequests)
        /\ (tasks[i].state = "sleeping" /\ ~tasks[i].expired
                /\ tasks'[i] # tasks[i])
               => /\ jwt' = jwt /\ jwtRequests' = jwtRequests
                  /\ tasks'[i].state = "uploading"
                  /\ tasks'[i].calls = tasks[i].calls + 1
                  /\ tasks'[i].callJwt = jwt
                  /\ tasks'[i].refreshes = tasks[i].refreshes]_vars

C28_Witness ==
    /\ pc = "onIdle"
    /\ \E i \in TaskIds :
        /\ tasks[i].state = "uploading"
        /\ tasks[i].outcomes = <<"other", "other">>
        /\ tasks[i].refreshes = 0
        /\ jwtRequests = 1

\* C29: the payload of every upsert-hashes call is the hash of each file of the
\* index, in index order, whatever the missing set is (also when it is not the
\* whole index), and the payload of the second call is that of the first.
C29_CommitPayloadIsWholeIndex ==
    /\ \A k \in 1..Len(upsertCalls) :
        /\ Len(upsertCalls[k].hashes) = Len(fileMap)
        /\ \A i \in 1..Len(fileMap) : upsertCalls[k].hashes[i] = fileMap[i].hash
    /\ Len(upsertCalls) = 2 => upsertCalls[2].hashes = upsertCalls[1].hashes

C29_Witness ==
    /\ Len(upsertCalls) = 2
    /\ Len(sortedFiles) > 0 /\ Len(sortedFiles) < Len(fileMap)
    /\ \A i \in TaskIds : tasks[i].state \in {"done", "skipped"}

\* the fetchJwt() requests that have not been answered
InFlightJwt ==
    {tasks[i].reqId : i \in {k \in TaskIds : tasks[k].state = "refreshing"}}
        \cup (IF pc \in {"fetchJwt", "upsertRefresh"} THEN {jwtRequests} ELSE {})

\* C27: the shared token is always the whole value returned by a fetchJwt()
\* that has resolved (none before the first one resolved): it changes only in
\* the step in which a fetchJwt() resolves and then becomes the token of that
\* request, so that after concurrent refreshes it is the token of the request
\* that resolved last, whichever was requested first.
C27_TokenReplacedAsAWhole ==
    /\ [](/\ jwt \in 0..jwtRequests
          /\ jwt \notin InFlightJwt
          /\ jwt = 0 <=> pc \in {"start", "fetchJwt"} \/ (pc = "threw" /\ checkMissingCalls = << >>))
    /\ [][/\ jwt' # jwt =>
                \/ pc = "fetchJwt" /\ jwt' = jwtRequests
                \/ pc = "upsertRefresh" /\ jwt' = jwtRequests
                \/ \E i \in TaskIds : tasks[i].state = "refreshing" /\ jwt' = tasks[i].reqId
          /\ \A i \in TaskIds :
                (tasks[i].state = "refreshing" /\ tasks'[i].state = "uploading")
                    => jwt' = tasks[i].reqId]_vars

C27_Witness ==
    /\ pc = "onIdle"
    /\ InFlightJwt = {}
    /\ \E i, k \in TaskIds :
        /\ tasks[i].state = "uploading" /\ tasks[i].refreshes = 1 /\ tasks[i].callJwt = jwt
        /\ tasks[k].state = "uploading" /\ tasks[k].refreshes = 1 /\ tasks[k].callJwt > jwt

\* the files of fs are in order of size, the largest first
Descending(fs) == \A k \in 1..(Len(fs) - 1) : fs[k].sizeInBytes >= fs[k + 1].sizeInBytes

\* bucket b takes file f of the next file of the loop
Takes(b, f) ==
    /\ buckets[b].remainingSize >= f.sizeInBytes
    /\ Len(buckets[b].files) < MAX_BUCKET_FILE_COUNT

\* the place of bucket b (1-based) in the scan that starts at index i mod n
ScanRank(b, i) == ((b - 1) + Len(buckets) - (i % Len(buckets))) % Len(buckets)

\* C30: the files are processed in descending order of size, and the step for
\* file i (i = bucketOffset, counted from 0) adds the file to the bucket that
\* comes first, in the cyclic scan from index i mod (number of buckets), among
\* those with remainingSize >= its size and fewer than MAX_BUCKET_FILE_COUNT
\* files, leaving the other buckets as they are; when there is none it pushes
\* a bucket holding that file alone; bucketOffset then moves to the next file.
C30_PlacementRule ==
    /\ [](pc = "plan" => Descending(sortedFiles))
    /\ [][pc = "plan" =>
            LET f == sortedFiles[bucketOffset + 1]
                fit == {b \in 1..Len(buckets) : Takes(b, f)}
            IN  /\ bucketOffset' = bucketOffset + 1
                /\ sortedFiles' = sortedFiles
                /\ IF fit = {}
                   THEN buckets' =
                            Append(buckets,
                                   [files |-> <<f>>,
                                    remainingSize |-> MAX_BUCKET_SIZE - f.sizeInBytes])
                   ELSE \E b \in fit :
                            /\ \A c \in fit : ScanRank(b, bucketOffset) <= ScanRank(c, bucketOffset)
                            /\ Len(buckets') = Len(buckets)
                            /\ buckets'[b].files = Append(buckets[b].files, f)
                            /\ buckets'[b].remainingSize =
                                   buckets[b].remainingSize - f.sizeInBytes
                            /\ \A c \in 1..Len(buckets) : c # b => buckets'[c] = buckets[c]]_vars

\* the last file placed is in a bucket before the one its scan started at, which
\* could not take it
C30_Witness ==
    /\ pc = "plan"
    /\ bucketOffset >= 1 /\ bucketOffset = Len(sortedFiles)
    /\ LET f == sortedFiles[bucketOffset]
           start == ((bucketOffset - 1) % Len(buckets)) + 1
       IN  /\ buckets[start].remainingSize < f.sizeInBytes
           /\ \E b \in 1..(start - 1) :
                  /\ buckets[b].files # << >>
                  /\ buckets[b].files[Len(buckets[b].files)] = f

\* both files have been read and hashed
BothHashed == Len(hashed) = 2 /\ hashed[1] # << >> /\ hashed[2] # << >>

SameContent == hashFiles[1].content = hashFiles[2].content

SameExtension ==
    Extension(PathName(hashFiles[1].dir, hashFiles[1].file))
        = Extension(PathName(hashFiles[2].dir, hashFiles[2].file))

\* C24: of two files with the same bytes, those with the same extension have
\* the same hash and those with different extensions have different hashes.
C24_CollisionRule ==
    (BothHashed /\ SameContent) =>
        (hashed[1][1].hash = hashed[2][1].hash <=> SameExtension)

C24_Witness ==
    /\ BothHashed /\ SameContent /\ ~SameExtension
    /\ hashFiles[1].content # << >>
    /\ hashFiles[1].file = <<"A", ".", "A">>
    /\ hashFiles[2].file = <<".", "A">>

\* C25: the hash of a file is determined by its bytes and its extension: two
\* files that agree on both have the same hash, whatever their directories,
\* their base names and the sizes stat reported and in whichever order they
\* were read, and the hash of a file stays what it is when another file is read.
C25_HashIsFunctionOfContentAndExtension ==
    /\ []((BothHashed /\ SameContent /\ SameExtension)
              => hashed[1][1].hash = hashed[2][1].hash)
    /\ [][\A k \in 1..Len(hashed) : hashed[k] # << >> => hashed'[k] = hashed[k]]_vars

C25_Witness ==
    /\ BothHashed /\ SameContent /\ SameExtension
    /\ hashFiles[1].content # << >>
    /\ hashFiles[1].dir # hashFiles[2].dir
    /\ hashFiles[1].file # hashFiles[2].file
    /\ hashFiles[1].size # hashFiles[2].size
    /\ Extension(hashFiles[1].file) # << >>
    /\ hashed[1][1].name # hashed[2][1].name

\* the symbolic links of the tree
Links(t) == {n \in 1..Len(t) : IsLink(t[n])}

RECURSIVE ThroughLink(_, _)
\* whether the path of entry n goes through a symbolic link
ThroughLink(t, n) ==
    IsLink(t[n]) \/ (t[n].parent # 0 /\ ThroughLink(t, t[n].parent))

\* C26: a symbolic link is skipped: its callback returns after stat without
\* reading or walking it, no entry of the index has its name, and nothing whose
\* path goes through a symbolic link is visited.
C26_SymlinksSkipped ==
    /\ \A n \in Links(tree) : walkState[n] \in {"unvisited", "stat", "skipped"}
    /\ \A n \in 1..Len(tree) :
        ThroughLink(tree, n) =>
            \A k \in 1..Len(walkMap) : walkMap[k].name # NameOf(tree, n)

\* C31: in every bucket, at every point of the planner loop, the files are in
\* order of size, the largest first.
C31_BatchLargestFirst ==
    pc = "plan" => \A b \in 1..Len(buckets) : Descending(buckets[b].files)

\* the plan is finished and a bucket holds a larger file before a smaller one
\* that comes first in the index
C31_Witness ==
    /\ PlanComplete
    /\ \E b \in 1..Len(buckets) : \E i, k \in 1..Len(fileMap) :
        /\ i < k
        /\ Len(buckets[b].files) = 2
        /\ buckets[b].files[1].name = fileMap[k].name
        /\ buckets[b].files[2].name = fileMap[i].name
        /\ fileMap[k].sizeInBytes > fileMap[i].sizeInBytes

\* C32: a bucket without files is skipped and never gets a task that runs, and
\* every upload call that is issued is for a bucket with at least one file.
C32_NoEmptyUpload ==
    /\ [](\A i \in 1..Len(tasks) :
              Len(buckets[i].files) = 0 => (tasks[i].state = "skipped" /\ tasks[i].calls = 0))
    /\ [][\A i \in 1..Len(tasks') :
              tasks'[i].calls > (IF i <= Len(tasks) THEN tasks[i].calls ELSE 0)
                  => Len(buckets'[i].files) >= 1]_vars

\* one of the first buckets stayed empty and was skipped while the upload call
\* of another bucket was issued and failed once
C32_Witness ==
    /\ pc = "onIdle"
    /\ \E i, k \in 1..Len(tasks) :
        /\ Len(buckets[i].files) = 0 /\ tasks[i].state = "skipped"
        /\ Len(buckets[k].files) >= 1 /\ tasks[k].calls = 2 /\ tasks[k].state = "uploading"

\* C33: at most one check-missing call is ever made; once the first token has
\* arrived exactly one has been made, with the hash of every indexed file in
\* index order; and no upload task exists, so no upload call has been issued,
\* until the response to it has arrived.
C33_SingleCheckMissing ==
    [](/\ Len(checkMissingCalls) <= 1
       /\ pc \in {"start", "fetchJwt"} => checkMissingCalls = << >>
       /\ (pc \notin {"start", "fetchJwt", "threw"} \/ tasks # << >>) =>
           /\ Len(checkMissingCalls) = 1
           /\ checkMissingCalls[1].hashes = [i \in 1..Len(fileMap) |-> fileMap[i].hash]
       /\ pc \in {"start", "fetchJwt", "checkMissing"} => tasks = << >>
       /\ (pc = "threw" /\ tasks = << >>) => upsertCalls = << >>)

\* the one call carried two equal hashes and uploads are under way
C33_Witness ==
    /\ pc = "onIdle"
    /\ Len(checkMissingCalls) = 1
    /\ Len(checkMissingCalls[1].hashes) = MAX_FILE_COUNT
    /\ checkMissingCalls[1].hashes[1] = checkMissingCalls[1].hashes[2]
    /\ \E i \in 1..Len(tasks) : tasks[i].calls >= 1
    /\ \E i \in 1..Len(tasks) : tasks[i].state = "done"
    /\ \E i \in 1..Len(tasks) : tasks[i].state = "refreshing"

\* C34: a bucket is failed only when every upload call the retry loop makes for
\* it has been made and has failed.
C34_FailureOnlyByExhaustion ==
    \A i \in 1..Len(tasks) :
        tasks[i].state = "failed" =>
            /\ tasks[i].calls > MAX_UPLOAD_ATTEMPTS
            /\ tasks[i].attempts = MAX_UPLOAD_ATTEMPTS
            /\ Len(tasks[i].outcomes) = tasks[i].calls

\* C35: in the success report the number of files uploaded and the number of
\* files already uploaded add up to the number of indexed files.
C35_ReportAddsUp ==
    \A k \in 1..Len(successLogged) :
        successLogged[k].uploaded + successLogged[k].skipped = Len(fileMap)

\* the places (bucket, position) of the upload payloads that carry key h
KeyPlaces(h) ==
    {<<b, f>> \in (1..Len(tasks)) \X (1..MAX_BUCKET_FILE_COUNT) :
        /\ tasks[b].calls > 0
        /\ f <= Len(buckets[b].files)
        /\ buckets[b].files[f].hash = h}

\* C36: over all upload payloads of the run, a hash is the key of at most one
\* entry.
C36_KeySentOnce ==
    \A h \in missingHashes : Cardinality(KeyPlaces(h)) <= 1

\* the string walk hashed for file k: the base64 content followed by the extension
HashInput(k) == hashed[k][1].hash.blake3

\* C37: two files that differ in their bytes or in their extension have
\* different strings hashed, so their hashes differ unless blake3 collides.
C37_HashInputInjective ==
    (BothHashed /\ (~SameContent \/ ~SameExtension)) =>
        /\ HashInput(1) # HashInput(2)
        /\ hashed[1][1].hash # hashed[2][1].hash

\* C38: the shared token is never replaced by the token of a fetchJwt() that
\* was called before the fetchJwt() of the token it replaces (token k is the
\* one returned by the k-th call).
C38_NewerTokenNeverReplaced == [][jwt' >= jwt]_vars

\* upload() has returned or thrown, or the process was ended by the runtime
Ended == pc \in {"returned", "threw"} \/ ~alive

Watching == {e \in 1..Len(effects) : effects[e].watching}

\* C40: no watcher is running for a run of the effect whose destructor has been
\* called, so at most one watcher is running, and the bundle is never that of
\* a run earlier than one whose build has resolved.
C40_WatcherStoppedOnCleanup ==
    /\ \A e \in 1..Len(effects) : effects[e].cleaned => ~effects[e].watching
    /\ Cardinality(Watching) <= 1
    /\ \A e \in 1..Len(effects) :
        (mounted /\ bundle # << >> /\ effects[e].build = "resolved") => bundle[1].effect >= e

====
